---- MODULE Spec2Model ----
(***************************************************************************)
(* Model of the client side of the LTTng control library (lttng-ctl.c):    *)
(* the two request/reply transports to the session daemon                  *)
(* (lttng_ctl_ask_sessiond_fds_varlen, lttng_ctl_ask_sessiond_payload),    *)
(* the process-wide connection state they share, and the public            *)
(* operations built on them.                                               *)
(***************************************************************************)
EXTENDS Integers, Sequences, FiniteSets, TLC

(***************************************************************************)
(* Bounds of the model.                                                    *)
(***************************************************************************)
\* Number of calls the process issues, all threads together.
MaxCalls == 2
\* Largest small section size (in bytes) a reply header declares.
MaxSize == 2
\* Size in bytes of one listed record with its extended part (scaled down).
RecordSize == 2
\* Number of data-pending checks one stop call is followed through.
MaxPolls == 3
\* Largest number of records in a listing reply.
MaxEvents == 2

\* Threads of the calling process.
Threads == {1, 2}
\* The single caller of the sequential specification.
SeqThreads == {1}

(***************************************************************************)
(* Program constants.                                                      *)
(***************************************************************************)
LTTNG_OK == 10
LTTNG_ERR_UNK == 11
LTTNG_ERR_NO_SESSIOND == 19
LTTNG_ERR_FATAL == 25
LTTNG_ERR_NOMEM == 26
LTTNG_ERR_EPERM == 32
LTTNG_ERR_TRACE_ALREADY_STOPPED == 81
LTTNG_ERR_INVALID == 97
LTTNG_ERR_FILTER_INVAL == 107
LTTNG_ERR_EXCLUSION_NOMEM == 112
LTTNG_ERR_INVALID_TRIGGER == 136
LTTNG_ERR_OVERFLOW == 127
LTTNG_ERR_PROBE_LOCATION_INVAL == 145
LTTNG_ERR_INVALID_PROTOCOL == 152
\* errno value of a failed zmalloc().
ENOMEM == 12
\* sizeof(struct lttcomm_lttng_msg): the fixed reply header.
SizeofLlm == 24
\* What a failing lttcomm_* socket primitive returns (-1, errno set).
RawSockErr == 0 - 1

(***************************************************************************)
(* Machine integers.  A uint32_t or size_t value is the pair <<hi, lo>>    *)
(* standing for hi * 2^16 + lo, lo in 0..65535; a uint32_t has             *)
(* hi in 0..65535.  An int is a TLA+ integer in -2^31 .. 2^31-1.           *)
(***************************************************************************)
Half == 256 * 256

U32(n) == <<n \div Half, n % Half>>

\* Unsigned negation, modulo 2^32 (the `-llm.ret_code' of the source).
U32Neg(v) ==
  IF v[2] = 0
    THEN <<(Half - v[1]) % Half, 0>>
    ELSE <<Half - 1 - v[1], Half - v[2]>>

\* Conversion of a uint32_t to int (two's complement).
U32ToInt(v) ==
  IF v[1] >= Half \div 2
    THEN (v[1] - Half) * Half + v[2]
    ELSE v[1] * Half + v[2]

\* size_t arithmetic (no wrap-around is reachable: sizes stay below 2^34).
SzAdd(a, b) == <<a[1] + b[1] + ((a[2] + b[2]) \div Half), (a[2] + b[2]) % Half>>

SzSub(a, b) ==
  IF a[2] >= b[2]
    THEN <<a[1] - b[1], a[2] - b[2]>>
    ELSE <<a[1] - b[1] - 1, a[2] + Half - b[2]>>

SzLess(a, b) == a[1] < b[1] \/ (a[1] = b[1] /\ a[2] < b[2])

\* Conversion of a size_t to int: the low 32 bits, two's complement.
SzToInt(s) == U32ToInt(<<s[1] % Half, s[2]>>)

Zero == U32(0)
\* INT_MAX + 1, the smallest uint32_t that does not fit an int.
BigSize == <<Half \div 2, 0>>
UINT32_MAX == <<Half - 1, Half - 1>>

(***************************************************************************)
(* State.                                                                  *)
(***************************************************************************)
VARIABLES
  sessiond_socket,  \* static int sessiond_socket: the connection in use, or -1
  connected,        \* static int connected
  closes,           \* closes[c]: close() calls made on connection c so far;
                    \* Len(closes) connections were opened
  pc,               \* pc[t]: where thread t stands in its call
  api,              \* api[t]: the operation thread t called
  args,             \* args[t]: the arguments of the transport call
  llm,              \* llm[t]: struct lttcomm_lttng_msg llm, the reply header
  ret,              \* ret[t]: int ret of the transport call
  log,              \* log[t]: socket operations of the call, in order
  out,              \* out[t]: what the call stored through its output pointers
  reply,            \* reply[t]: struct lttng_payload *reply (payload path)
  mysock,           \* mysock[t]: the connection this call opened, or -1
  ncalls,           \* calls started so far, by any thread
  params,           \* params[t]: the arguments of the public operation
  sessiond_sock_path,  \* static char sessiond_sock_path[PATH_MAX], in two parts
  resolving         \* resolving[t]: the locals of thread t's connect_sessiond

vars == <<sessiond_socket, connected, closes, pc, api, args, llm, ret, log,
          out, reply, mysock, ncalls, params, sessiond_sock_path, resolving>>

\* The arguments of lttng_ctl_ask_sessiond_fds_varlen: which pointers are
\* non-NULL, and the two counts.  The payload path uses nb_fd for the
\* descriptor count of its message view.
ArgsOf(fds, nb_fd, vardata, vardata_len, payload_buf, cmd_buf, cmd_len) ==
  [fds |-> fds, nb_fd |-> nb_fd, vardata |-> vardata,
   vardata_len |-> vardata_len, user_payload_buf |-> payload_buf,
   user_cmd_header_buf |-> cmd_buf, user_cmd_header_len |-> cmd_len]

NoArgs == ArgsOf(FALSE, 0, FALSE, 0, FALSE, FALSE, FALSE)

\* Argument combinations of the fixed-header path: a (pointer, count) pair is
\* (NULL, 0), (non-NULL, 0) or (non-NULL, 1); each output pointer is NULL or
\* not.
PtrCount == {<<FALSE, 0>>, <<TRUE, 0>>, <<TRUE, 1>>}

FdsArgs ==
  {ArgsOf(f[1], f[2], v[1], v[2], p, c, cl) :
     f \in PtrCount, v \in PtrCount,
     p \in BOOLEAN, c \in BOOLEAN, cl \in BOOLEAN}

\* Every message view of the payload path: with or without a descriptor.
PayloadArgs == {ArgsOf(n > 0, n, TRUE, 1, FALSE, FALSE, FALSE) : n \in 0..1}

NoLlm == [set |-> FALSE]

HeaderOf(code, cmd, data, fdc) ==
  [set |-> TRUE, ret_code |-> code, cmd_header_size |-> cmd,
   data_size |-> data, fd_count |-> fdc]

\* Result codes the daemon reports: success and three of its errors.
RetCodes ==
  {U32(LTTNG_OK), U32(LTTNG_ERR_UNK), U32(LTTNG_ERR_NOMEM),
   U32(LTTNG_ERR_TRACE_ALREADY_STOPPED)}

\* Section sizes a reply header declares.
SmallSizes == {U32(n) : n \in 0..MaxSize}
INT_MAX_U32 == <<(Half \div 2) - 1, Half - 1>>
Sizes == SmallSizes \cup {INT_MAX_U32, BigSize}

\* Reply headers: a successful one declares any sizes; a failed one
\* declares small sizes, zero or not.
Headers ==
  {HeaderOf(U32(LTTNG_OK), h, d, f) :
     h \in Sizes, d \in Sizes, f \in {Zero, U32(1)}}
  \cup
  {HeaderOf(c, h, d, f) :
     c \in RetCodes, h \in {Zero, U32(1)}, d \in {Zero, U32(1)},
     f \in {Zero, U32(1)}}

\* What llm holds when the receive wrote no byte into it: llm is an
\* uninitialized local on the fixed-header path and a copy of the freshly
\* grown reply buffer on the payload path.  Any bytes; among them a code
\* of LTTNG_OK, a daemon error, and two values outside the error codes.
Unwritten ==
  {HeaderOf(c, h, d, f) :
     c \in {U32(LTTNG_OK), U32(LTTNG_ERR_UNK), Zero, UINT32_MAX},
     h \in {Zero, U32(1)}, d \in {Zero, U32(1)}, f \in {Zero, U32(1)}}

\* What a call has stored: through the transport's output pointers, through
\* the output pointer of a public operation that keeps the reply in a
\* local (user), whether it has passed the payload buffer to free(), and
\* how many times it called zmalloc(), and the extended pointer it stored
\* into each listed record (an offset into the received allocation).
NoOut ==
  [cmd_buf |-> "unset", cmd_len |-> "unset", payload_buf |-> "unset",
   user |-> "unset", freed |-> FALSE, zmallocs |-> 0, extended |-> <<>>]
NoParams == [none |-> TRUE]
NoReply == [size |-> Zero, fds |-> 0]

Ev(e, s, r) == [ev |-> e, sock |-> s, res |-> r]

\* The two socket paths, and the path buffer: written and read in two
\* parts, all zero when the library is loaded.
DEFAULT_GLOBAL_CLIENT_UNIX_SOCK == "global"
DEFAULT_HOME_CLIENT_UNIX_SOCK == "home"
PathOf(name) == <<name, name>>
NoPath == PathOf("")

\* Who calls, and what the caller's environment answers: getuid(), whether
\* the tracing group is found among the caller's groups, whether a daemon
\* listens on the global socket, whether the home path fits the buffer.
Callers ==
  [uid : {0, 1000}, member : BOOLEAN, global_alive : BOOLEAN,
   home_fits : BOOLEAN]

RootCaller ==
  {[uid |-> 0, member |-> FALSE, global_alive |-> TRUE, home_fits |-> TRUE]}

\* The locals of connect_sessiond and set_session_daemon_path: resolved is
\* the path this call's own resolution ended with, tried the path handed to
\* try_connect_sessiond, used the path handed to lttcomm_connect_unix_sock.
NoCaller ==
  [uid |-> 0 - 1, member |-> FALSE, global_alive |-> FALSE,
   home_fits |-> FALSE]
NotYet == PathOf("not yet")
NoConn ==
  [caller |-> NoCaller, in_tgroup |-> 0, resolved |-> NotYet,
   tried |-> NotYet, used |-> NotYet]

Init ==
  /\ sessiond_socket = 0 - 1
  /\ connected = 0
  /\ closes = <<>>
  /\ pc = [t \in Threads |-> "idle"]
  /\ api = [t \in Threads |-> "none"]
  /\ args = [t \in Threads |-> NoArgs]
  /\ llm = [t \in Threads |-> NoLlm]
  /\ ret = [t \in Threads |-> 0]
  /\ log = [t \in Threads |-> <<>>]
  /\ out = [t \in Threads |-> NoOut]
  /\ reply = [t \in Threads |-> NoReply]
  /\ mysock = [t \in Threads |-> 0 - 1]
  /\ ncalls = 0
  /\ params = [t \in Threads |-> NoParams]
  /\ sessiond_sock_path = NoPath
  /\ resolving = [t \in Threads |-> NoConn]

(***************************************************************************)
(* The lttcomm socket primitives and the allocator are the                 *)
(* environment: each call draws its outcome.                               *)
(***************************************************************************)
\* Raw results of a send primitive: -1, or some positive byte count.
SendRaw == {RawSockErr, 1}
\* Outcomes of a receive primitive: every byte asked for, an orderly
\* shutdown by the peer, or a socket error.
RecvOutcomes == {"full", "eof", "err"}

\* ssize_t lttcomm_recv_unix_sock(sock, buf, len), stored into an int: len
\* when every byte arrived, 0 on an orderly shutdown, -1 on error.
lttcomm_recv_unix_sock(o, len) ==
  CASE o = "full" -> SzToInt(len)
    [] o = "eof" -> 0
    [] OTHER -> RawSockErr

\* A primitive used on a connection that was closed already can only fail.
Usable(sock) == sock \in 1..Len(closes) /\ closes[sock] = 0
SendRawOn(sock) == IF Usable(sock) THEN SendRaw ELSE {RawSockErr}
RecvOutcomesOn(sock) == IF Usable(sock) THEN RecvOutcomes ELSE {"err"}

\* The log entry of a send whose raw result is raw.
SendRes(conn, raw) ==
  IF conn = 0 THEN "notconn" ELSE IF raw < 0 THEN "err" ELSE "ok"
RecvRes(conn, o) == IF conn = 0 THEN "notconn" ELSE o

(***************************************************************************)
(* The static helpers of lttng-ctl.c, as the values they return.           *)
(***************************************************************************)
\* send_session_msg(), and the inline credential write of the payload path.
send_session_msg(conn, raw) ==
  IF conn = 0 THEN 0 - LTTNG_ERR_NO_SESSIOND
  ELSE IF raw < 0 THEN 0 - LTTNG_ERR_FATAL
  ELSE raw

\* send_session_varlen(data, len): nothing is sent without data.
send_session_varlen(conn, data, len, raw) ==
  IF conn = 0 THEN 0 - LTTNG_ERR_NO_SESSIOND
  ELSE IF ~data \/ len = 0 THEN 0
  ELSE IF raw < 0 THEN 0 - LTTNG_ERR_FATAL
  ELSE raw

\* send_session_fds(fds, nb_fd): nothing is sent without descriptors.
send_session_fds(conn, fds, nb_fd, raw) ==
  IF conn = 0 THEN 0 - LTTNG_ERR_NO_SESSIOND
  ELSE IF ~fds \/ nb_fd = 0 THEN 0
  ELSE IF raw < 0 THEN 0 - LTTNG_ERR_FATAL
  ELSE raw

\* recv_data_sessiond(buf, len).
recv_data_sessiond(conn, o, len) ==
  IF conn = 0 THEN 0 - LTTNG_ERR_NO_SESSIOND
  ELSE IF lttcomm_recv_unix_sock(o, len) < 0 THEN 0 - LTTNG_ERR_FATAL
  ELSE lttcomm_recv_unix_sock(o, len)

\* recv_payload_sessiond(payload, len): grow the buffer, then receive into
\* the new tail.  grow is the outcome of lttng_dynamic_buffer_set_size.
recv_payload_sessiond(conn, grow, o, len) ==
  IF ~grow THEN 0 - LTTNG_ERR_NOMEM
  ELSE recv_data_sessiond(conn, o, len)

\* A recv_sessiond_optional_data that touches neither the socket nor its
\* output pointers.
recv_sessiond_optional_data_inert(len, user_buf, user_len, conn, alloc, o) ==
  [ret |-> 0, buf |-> "keep", len |-> "keep", read |-> FALSE,
   zmalloc |-> FALSE]

\* recv_sessiond_optional_data(len, user_buf, user_len): the value returned,
\* what was stored through user_buf and user_len, whether the socket was
\* read, and whether zmalloc(len) was called.  alloc is the outcome of
\* zmalloc(len).
recv_sessiond_optional_data(len, user_buf, user_len, conn, alloc, o) ==
  IF len # Zero THEN
    IF ~user_len THEN
      [ret |-> 0 - LTTNG_ERR_INVALID, buf |-> "keep", len |-> "keep",
       read |-> FALSE, zmalloc |-> FALSE]
    ELSE IF ~alloc THEN
      [ret |-> 0 - ENOMEM, buf |-> "keep", len |-> "keep", read |-> FALSE,
       zmalloc |-> TRUE]
    ELSE IF recv_data_sessiond(conn, o, len) < 0 THEN
      [ret |-> recv_data_sessiond(conn, o, len), buf |-> "keep",
       len |-> "keep", read |-> TRUE, zmalloc |-> TRUE]
    ELSE IF ~user_buf THEN
      [ret |-> 0 - LTTNG_ERR_INVALID, buf |-> "keep", len |-> "keep",
       read |-> TRUE, zmalloc |-> TRUE]
    ELSE
      [ret |-> recv_data_sessiond(conn, o, len), buf |-> "alloc",
       len |-> "len", read |-> TRUE, zmalloc |-> TRUE]
  ELSE
    [ret |-> 0,
     buf |-> IF user_buf THEN "null" ELSE "keep",
     len |-> IF user_len THEN "zero" ELSE "keep",
     read |-> FALSE, zmalloc |-> FALSE]

Stored(old, new) == IF new = "keep" THEN old ELSE new

\* A reset that forgets to clear the connected flag.
reset_keeps_connected == [sessiond_socket |-> 0 - 1, connected |-> 1]

\* reset_global_sessiond_connection_state().
reset_global_sessiond_connection_state == [sessiond_socket |-> 0 - 1, connected |-> 0]

\* A result-code check that lets every reply through.
HeaderGate_open(h) == FALSE

\* `if (llm.ret_code != LTTNG_OK)': the reply is the header alone.
HeaderGate(h) == h.ret_code # U32(LTTNG_OK)

\* The daemon's code replaced by the transport's own fatal error.
DaemonError_fatal(h) == 0 - LTTNG_ERR_FATAL

\* `ret = -llm.ret_code': the daemon's code, negated as a uint32_t and
\* stored into an int.
DaemonError(h) == U32ToInt(U32Neg(h.ret_code))

(***************************************************************************)
(* Control flow of the two transports: the steps in source order, and      *)
(* `if (ret < 0) goto end'.                                                *)
(***************************************************************************)
\* The reply header read before the descriptors are sent.
FdsSteps_read_early ==
  <<"connect", "send_msg", "send_varlen", "recv_hdr", "send_fds",
    "recv_cmd", "recv_data", "disconnect">>

\* The variable data written before the command record.
FdsSteps_varlen_first ==
  <<"connect", "send_varlen", "send_msg", "send_fds", "recv_hdr",
    "recv_cmd", "recv_data", "disconnect">>

FdsSteps ==
  <<"connect", "send_msg", "send_varlen", "send_fds", "recv_hdr",
    "recv_cmd", "recv_data", "disconnect">>

PayloadSteps ==
  <<"connect", "send_creds", "send_pfds", "precv_hdr", "precv_cmd",
    "precv_data", "precv_fds", "strip", "disconnect">>

After(steps, p) == steps[(CHOOSE i \in 1..Len(steps) : steps[i] = p) + 1]

Goto(r, steps, p) == IF r < 0 THEN "disconnect" ELSE After(steps, p)

(***************************************************************************)
(* Entry of a call.                                                        *)
(***************************************************************************)
\* Operations that talk to the daemon through the payload path.
PayloadApis ==
  {"lttng_ctl_ask_sessiond_payload", "lttng_register_trigger",
   "lttng_unregister_trigger",
   "lttng_list_events"}
\* The transports called directly: their return ends the call.
TransportApis ==
  {"lttng_ctl_ask_sessiond_fds_varlen", "lttng_ctl_ask_sessiond_payload"}

Steps(t) == IF api[t] \in PayloadApis THEN PayloadSteps ELSE FdsSteps

\* Thread t enters operation a at step p with transport arguments ar.
Enter(t, a, ar, p, r) ==
  /\ ncalls' = ncalls + 1
  /\ api' = [api EXCEPT ![t] = a]
  /\ args' = [args EXCEPT ![t] = ar]
  /\ pc' = [pc EXCEPT ![t] = p]
  /\ ret' = [ret EXCEPT ![t] = r]
  /\ UNCHANGED <<sessiond_socket, connected, closes, llm, log, out, reply,
                 mysock, sessiond_sock_path, resolving>>

\* Thread t may start a call.
CanCall(t) == pc[t] = "idle" /\ ncalls < MaxCalls

\* The caller has taken the result of its call: the call's locals are gone.
Return(t) ==
  /\ pc[t] = "returned"
  /\ pc' = [pc EXCEPT ![t] = "idle"]
  /\ api' = [api EXCEPT ![t] = "none"]
  /\ args' = [args EXCEPT ![t] = NoArgs]
  /\ ret' = [ret EXCEPT ![t] = 0]
  /\ llm' = [llm EXCEPT ![t] = NoLlm]
  /\ log' = [log EXCEPT ![t] = <<>>]
  /\ out' = [out EXCEPT ![t] = NoOut]
  /\ reply' = [reply EXCEPT ![t] = NoReply]
  /\ mysock' = [mysock EXCEPT ![t] = 0 - 1]
  /\ params' = [params EXCEPT ![t] = NoParams]
  /\ resolving' = [resolving EXCEPT ![t] = NoConn]
  /\ UNCHANGED <<sessiond_socket, connected, closes, ncalls,
                 sessiond_sock_path>>

\* A caller inside the library enters the fixed-header transport.
lttng_ctl_ask_sessiond_fds_varlen(t, A) ==
  /\ CanCall(t)
  /\ \E ar \in A :
       Enter(t, "lttng_ctl_ask_sessiond_fds_varlen", ar, "connect", 0)
  /\ UNCHANGED params

\* A caller inside the library enters the payload transport.
lttng_ctl_ask_sessiond_payload(t, A) ==
  /\ CanCall(t)
  /\ \E ar \in A :
       Enter(t, "lttng_ctl_ask_sessiond_payload", ar, "connect", 0)
  /\ UNCHANGED params

(***************************************************************************)
(* Steps shared by the two transports.                                     *)
(***************************************************************************)
Logged(t, e) == log' = [log EXCEPT ![t] = Append(@, e)]

\* The socket a primitive is handed: the global, read at the call.
Sock == sessiond_socket

\* If yes return 1, else return -1.
lttng_check_tracing_group(c) == IF c.member THEN 1 ELSE 0 - 1

\* Whether a daemon answers on path: the global daemon as the environment
\* says, a per-user daemon or not, nothing at a path that is neither.
SocketAnswers(path, c) ==
  IF path = PathOf(DEFAULT_GLOBAL_CLIENT_UNIX_SOCK) THEN {c.global_alive}
  ELSE IF path = PathOf(DEFAULT_HOME_CLIENT_UNIX_SOCK) THEN BOOLEAN
  ELSE {FALSE}

\* connect_sessiond() calls set_session_daemon_path(): uid = getuid(); if
\* (uid != 0) in_tgroup = lttng_check_tracing_group(); then the global path
\* is staged if ((uid == 0) || in_tgroup).
set_session_daemon_path(t, E) ==
  /\ pc[t] = "connect"
  /\ \E c \in E :
       LET in_tgroup == IF c.uid # 0 THEN lttng_check_tracing_group(c) ELSE 0
       IN /\ resolving' = [resolving EXCEPT ![t] =
                        [NoConn EXCEPT !.caller = c, !.in_tgroup = in_tgroup]]
          /\ pc' = [pc EXCEPT ![t] =
                      IF c.uid = 0 \/ in_tgroup # 0 THEN "path_global_1"
                      ELSE "path_home_1"]
  /\ UNCHANGED <<sessiond_socket, connected, closes, api, args, llm, ret,
                 log, out, reply, mysock, ncalls, params,
                 sessiond_sock_path>>

\* Where set_session_daemon_path goes once the global path is staged.
AfterGlobalPath(r) ==
  IF r.caller.uid = 0 THEN "open"
  ELSE IF r.in_tgroup # 0 THEN "try_connect" ELSE "path_home_1"

\* lttng_ctl_copy_string(sessiond_sock_path,
\* DEFAULT_GLOBAL_CLIENT_UNIX_SOCK, ...), one part at a time.
path_copy_global(t) ==
  /\ pc[t] \in {"path_global_1", "path_global_2"}
  /\ LET k == IF pc[t] = "path_global_1" THEN 1 ELSE 2
     IN /\ sessiond_sock_path' =
             [sessiond_sock_path EXCEPT ![k] = DEFAULT_GLOBAL_CLIENT_UNIX_SOCK]
        /\ pc' = [pc EXCEPT ![t] =
                    IF k = 1 THEN "path_global_2" ELSE AfterGlobalPath(resolving[t])]
        /\ resolving' = [resolving EXCEPT ![t].resolved =
                      IF k = 2 /\ resolving[t].caller.uid = 0
                      THEN PathOf(DEFAULT_GLOBAL_CLIENT_UNIX_SOCK) ELSE @]
  /\ UNCHANGED <<sessiond_socket, connected, closes, api, args, llm, ret,
                 log, out, reply, mysock, ncalls, params>>

\* ret = try_connect_sessiond(sessiond_sock_path); if (ret >= 0) goto end;
path_try_connect(t) ==
  /\ pc[t] = "try_connect"
  /\ \E alive \in SocketAnswers(sessiond_sock_path, resolving[t].caller) :
       /\ resolving' = [resolving EXCEPT ![t].tried = sessiond_sock_path,
                               ![t].resolved =
                                 IF alive
                                 THEN PathOf(DEFAULT_GLOBAL_CLIENT_UNIX_SOCK)
                                 ELSE @]
       /\ pc' = [pc EXCEPT ![t] = IF alive THEN "open" ELSE "path_home_1"]
  /\ UNCHANGED <<sessiond_socket, connected, closes, api, args, llm, ret,
                 log, out, reply, mysock, ncalls, params,
                 sessiond_sock_path>>

\* ret = snprintf(sessiond_sock_path, sizeof(sessiond_sock_path),
\* DEFAULT_HOME_CLIENT_UNIX_SOCK, utils_get_home_dir()), one part at a
\* time; a path that does not fit makes connect_sessiond return -1.
path_print_home(t) ==
  /\ pc[t] \in {"path_home_1", "path_home_2"}
  /\ LET k == IF pc[t] = "path_home_1" THEN 1 ELSE 2
         fits == resolving[t].caller.home_fits
     IN /\ sessiond_sock_path' =
             [sessiond_sock_path EXCEPT ![k] =
                IF k = 2 /\ ~fits THEN "cut"
                ELSE DEFAULT_HOME_CLIENT_UNIX_SOCK]
        /\ IF k = 1 THEN
             /\ pc' = [pc EXCEPT ![t] = "path_home_2"]
             /\ UNCHANGED <<resolving, ret, log>>
           ELSE IF fits THEN
             /\ pc' = [pc EXCEPT ![t] = "open"]
             /\ resolving' = [resolving EXCEPT ![t].resolved =
                           PathOf(DEFAULT_HOME_CLIENT_UNIX_SOCK)]
             /\ UNCHANGED <<ret, log>>
           ELSE
             /\ ret' = [ret EXCEPT ![t] = 0 - LTTNG_ERR_NO_SESSIOND]
             /\ Logged(t, Ev("connect", 0 - 1, "err"))
             /\ pc' = [pc EXCEPT ![t] = "disconnect"]
             /\ UNCHANGED resolving
  /\ UNCHANGED <<sessiond_socket, connected, closes, api, args, llm, out,
                 reply, mysock, ncalls, params>>

\* ret = lttcomm_connect_unix_sock(sessiond_sock_path) ends
\* connect_sessiond(); on success publish the socket globally.
ask_connect(t) ==
  /\ pc[t] = "open"
  /\ resolving' = [resolving EXCEPT ![t].used = sessiond_sock_path]
  /\ \E ok \in SocketAnswers(sessiond_sock_path, resolving[t].caller) \cup {FALSE} :
       IF ok THEN
         /\ closes' = Append(closes, 0)
         /\ sessiond_socket' = Len(closes) + 1
         /\ connected' = 1
         /\ mysock' = [mysock EXCEPT ![t] = Len(closes) + 1]
         /\ ret' = [ret EXCEPT ![t] = Len(closes) + 1]
         /\ Logged(t, Ev("connect", Len(closes) + 1, "ok"))
         /\ pc' = [pc EXCEPT ![t] = After(Steps(t), "connect")]
       ELSE
         /\ ret' = [ret EXCEPT ![t] = 0 - LTTNG_ERR_NO_SESSIOND]
         /\ Logged(t, Ev("connect", 0 - 1, "err"))
         /\ pc' = [pc EXCEPT ![t] = "disconnect"]
         /\ UNCHANGED <<closes, sessiond_socket, connected, mysock>>
  /\ UNCHANGED <<api, args, llm, out, reply, ncalls, params,
                 sessiond_sock_path>>

\* connect_sessiond() of root, step by step: the global path, then the
\* connection.
connect_sessiond_as_root(t) ==
  \/ set_session_daemon_path(t, RootCaller)
  \/ path_copy_global(t)
  \/ ask_connect(t)

\* connect_sessiond() of a caller among E, step by step.
connect_sessiond(t, E) ==
  \/ set_session_daemon_path(t, E)
  \/ path_copy_global(t)
  \/ path_try_connect(t)
  \/ path_print_home(t)
  \/ ask_connect(t)

\* end: disconnect_sessiond(); return ret;
ask_disconnect(t) ==
  /\ pc[t] = "disconnect"
  /\ IF connected # 0 THEN
       /\ closes' = [c \in DOMAIN closes |->
                       IF c = Sock THEN closes[c] + 1 ELSE closes[c]]
       /\ Logged(t, Ev("close", Sock, "ok"))
       /\ sessiond_socket' = reset_global_sessiond_connection_state.sessiond_socket
       /\ connected' = reset_global_sessiond_connection_state.connected
     ELSE UNCHANGED <<closes, log, sessiond_socket, connected>>
  /\ pc' = [pc EXCEPT ![t] =
              IF api[t] \in TransportApis THEN "returned" ELSE "post"]
  /\ UNCHANGED <<api, args, llm, ret, out, reply, mysock, ncalls, sessiond_sock_path, resolving, params>>

(***************************************************************************)
(* lttng_ctl_ask_sessiond_fds_varlen, step by step.                        *)
(***************************************************************************)
ask_fds_send_msg(t) ==
  /\ pc[t] = "send_msg"
  /\ \E raw \in SendRawOn(Sock) :
       /\ ret' = [ret EXCEPT ![t] = send_session_msg(connected, raw)]
       /\ Logged(t, Ev("send_msg", Sock, SendRes(connected, raw)))
       /\ pc' = [pc EXCEPT ![t] =
                   Goto(send_session_msg(connected, raw), FdsSteps, "send_msg")]
  /\ UNCHANGED <<sessiond_socket, connected, closes, api, args, llm, out,
                 reply, mysock, ncalls, sessiond_sock_path, resolving, params>>

ask_fds_send_varlen(t) ==
  /\ pc[t] = "send_varlen"
  /\ \E raw \in SendRawOn(Sock) :
       LET r == send_session_varlen(connected, args[t].vardata,
                                    args[t].vardata_len, raw)
           sent == connected = 0
                     \/ (args[t].vardata /\ args[t].vardata_len # 0)
       IN /\ ret' = [ret EXCEPT ![t] = r]
          /\ IF sent
               THEN Logged(t, Ev("send_varlen", Sock, SendRes(connected, raw)))
               ELSE UNCHANGED log
          /\ pc' = [pc EXCEPT ![t] = Goto(r, FdsSteps, "send_varlen")]
  /\ UNCHANGED <<sessiond_socket, connected, closes, api, args, llm, out,
                 reply, mysock, ncalls, sessiond_sock_path, resolving, params>>

ask_fds_send_fds(t) ==
  /\ pc[t] = "send_fds"
  /\ \E raw \in SendRawOn(Sock) :
       LET r == send_session_fds(connected, args[t].fds, args[t].nb_fd, raw)
           sent == connected = 0 \/ (args[t].fds /\ args[t].nb_fd # 0)
       IN /\ ret' = [ret EXCEPT ![t] = r]
          /\ IF sent
               THEN Logged(t, Ev("send_fds", Sock, SendRes(connected, raw)))
               ELSE UNCHANGED log
          /\ pc' = [pc EXCEPT ![t] = Goto(r, FdsSteps, "send_fds")]
  /\ UNCHANGED <<sessiond_socket, connected, closes, api, args, llm, out,
                 reply, mysock, ncalls, sessiond_sock_path, resolving, params>>

\* ret = recv_data_sessiond(&llm, sizeof(llm)), then the result-code check.
\* After a complete receive llm is the daemon's header; after an orderly
\* shutdown nothing was written to llm and its fields are indeterminate.
ask_fds_recv_header(t, H, U) ==
  /\ pc[t] = "recv_hdr"
  /\ \E o \in RecvOutcomesOn(Sock), h \in H \cup U :
       /\ h \in IF o = "full" THEN H ELSE U
       /\ LET r == recv_data_sessiond(connected, o, U32(SizeofLlm))
          IN
          /\ Logged(t, Ev("recv_hdr", Sock, RecvRes(connected, o)))
          /\ IF r < 0 THEN
               /\ ret' = [ret EXCEPT ![t] = r]
               /\ pc' = [pc EXCEPT ![t] = "disconnect"]
               /\ UNCHANGED llm
             ELSE
               /\ llm' = [llm EXCEPT ![t] = h]
               /\ IF HeaderGate(h) THEN
                    /\ ret' = [ret EXCEPT ![t] = DaemonError(h)]
                    /\ pc' = [pc EXCEPT ![t] = "disconnect"]
                  ELSE
                    /\ ret' = [ret EXCEPT ![t] = r]
                    /\ pc' = [pc EXCEPT ![t] = After(FdsSteps, "recv_hdr")]
  /\ UNCHANGED <<sessiond_socket, connected, closes, api, args, out, reply,
                 mysock, ncalls, sessiond_sock_path, resolving, params>>

\* ret = recv_sessiond_optional_data(llm.cmd_header_size,
\*         user_cmd_header_buf, user_cmd_header_len);
ask_fds_recv_cmd_header(t) ==
  /\ pc[t] = "recv_cmd"
  /\ \E alloc \in BOOLEAN, o \in RecvOutcomesOn(Sock) :
       LET d == recv_sessiond_optional_data(llm[t].cmd_header_size,
                  args[t].user_cmd_header_buf, args[t].user_cmd_header_len,
                  connected, alloc, o)
       IN /\ ret' = [ret EXCEPT ![t] = d.ret]
          /\ out' = [out EXCEPT ![t].cmd_buf = Stored(@, d.buf),
                                ![t].cmd_len = Stored(@, d.len),
                                ![t].zmallocs =
                                  IF d.zmalloc THEN @ + 1 ELSE @]
          /\ IF d.read
               THEN Logged(t, Ev("recv_cmd", Sock, RecvRes(connected, o)))
               ELSE UNCHANGED log
          /\ pc' = [pc EXCEPT ![t] = Goto(d.ret, FdsSteps, "recv_cmd")]
  /\ UNCHANGED <<sessiond_socket, connected, closes, api, args, llm, reply,
                 mysock, ncalls, sessiond_sock_path, resolving, params>>

\* ret = recv_sessiond_optional_data(llm.data_size, user_payload_buf,
\*         &payload_len); then ret = llm.data_size.
ask_fds_recv_data(t) ==
  /\ pc[t] = "recv_data"
  /\ \E alloc \in BOOLEAN, o \in RecvOutcomesOn(Sock) :
       LET d == recv_sessiond_optional_data(llm[t].data_size,
                  args[t].user_payload_buf, TRUE, connected, alloc, o)
       IN /\ ret' = [ret EXCEPT ![t] =
                       IF d.ret < 0 THEN d.ret ELSE U32ToInt(llm[t].data_size)]
          /\ out' = [out EXCEPT ![t].payload_buf = Stored(@, d.buf),
                                ![t].zmallocs =
                                  IF d.zmalloc THEN @ + 1 ELSE @]
          /\ IF d.read
               THEN Logged(t, Ev("recv_data", Sock, RecvRes(connected, o)))
               ELSE UNCHANGED log
          /\ pc' = [pc EXCEPT ![t] = "disconnect"]
  /\ UNCHANGED <<sessiond_socket, connected, closes, api, args, llm, reply,
                 mysock, ncalls, sessiond_sock_path, resolving, params>>

(***************************************************************************)
(* lttng_ctl_ask_sessiond_payload, step by step.                           *)
(***************************************************************************)
\* A raw lttcomm result turned into an LTTng error code.
FatalIfNegative(raw) == IF raw < 0 THEN 0 - LTTNG_ERR_FATAL ELSE raw

\* ret = lttcomm_send_creds_unix_sock(sessiond_socket, message bytes).
ask_payload_send_creds(t) ==
  /\ pc[t] = "send_creds"
  /\ \E raw \in SendRawOn(Sock) :
       /\ ret' = [ret EXCEPT ![t] = FatalIfNegative(raw)]
       /\ Logged(t, Ev("send_msg", Sock, SendRes(1, raw)))
       /\ pc' = [pc EXCEPT ![t] =
                   Goto(FatalIfNegative(raw), PayloadSteps, "send_creds")]
  /\ UNCHANGED <<sessiond_socket, connected, closes, api, args, llm, out,
                 reply, mysock, ncalls, sessiond_sock_path, resolving, params>>

\* if (fd_count > 0) ret = lttcomm_send_payload_view_fds_unix_sock(...).
ask_payload_send_fds(t) ==
  /\ pc[t] = "send_pfds"
  /\ IF args[t].nb_fd > 0 THEN
       \E raw \in SendRawOn(Sock) :
         /\ ret' = [ret EXCEPT ![t] = FatalIfNegative(raw)]
         /\ Logged(t, Ev("send_fds", Sock, SendRes(1, raw)))
         /\ pc' = [pc EXCEPT ![t] =
                     Goto(FatalIfNegative(raw), PayloadSteps, "send_pfds")]
     ELSE
       /\ pc' = [pc EXCEPT ![t] = After(PayloadSteps, "send_pfds")]
       /\ UNCHANGED <<ret, log>>
  /\ UNCHANGED <<sessiond_socket, connected, closes, api, args, llm, out,
                 reply, mysock, ncalls, sessiond_sock_path, resolving, params>>

\* The reply buffer after recv_payload_sessiond(reply, len): grown by len
\* when lttng_dynamic_buffer_set_size succeeded.
Grown(rp, grow, len) ==
  IF grow THEN [rp EXCEPT !.size = SzAdd(@, len)] ELSE rp

\* ret = recv_payload_sessiond(reply, sizeof(llm)); llm = *reply->buffer.data;
\* then the result-code check.  After an orderly shutdown the header bytes
\* of the buffer were never written by the daemon.
ask_payload_recv_header(t, H, U) ==
  /\ pc[t] = "precv_hdr"
  /\ \E grow \in BOOLEAN, o \in RecvOutcomesOn(Sock), h \in H \cup U :
       /\ h \in IF o = "full" THEN H ELSE U
       /\ LET r == recv_payload_sessiond(connected, grow, o, U32(SizeofLlm))
          IN
          /\ reply' = [reply EXCEPT ![t] = Grown(@, grow, U32(SizeofLlm))]
          /\ IF grow
               THEN Logged(t, Ev("recv_hdr", Sock, RecvRes(connected, o)))
               ELSE UNCHANGED log
          /\ IF r < 0 THEN
               /\ ret' = [ret EXCEPT ![t] = r]
               /\ pc' = [pc EXCEPT ![t] = "disconnect"]
               /\ UNCHANGED llm
             ELSE
               /\ llm' = [llm EXCEPT ![t] = h]
               /\ IF HeaderGate(h) THEN
                    /\ ret' = [ret EXCEPT ![t] = DaemonError(h)]
                    /\ pc' = [pc EXCEPT ![t] = "disconnect"]
                  ELSE
                    /\ ret' = [ret EXCEPT ![t] = r]
                    /\ pc' = [pc EXCEPT ![t] = After(PayloadSteps, "precv_hdr")]
  /\ UNCHANGED <<sessiond_socket, connected, closes, api, args, out, mysock,
                 ncalls, sessiond_sock_path, resolving, params>>

\* One optional byte section of the reply, of the size the header declares:
\* if (len > 0) ret = recv_payload_sessiond(reply, len);
PayloadSection(t, p, e, len) ==
  /\ pc[t] = p
  /\ IF len # Zero THEN
       \E grow \in BOOLEAN, o \in RecvOutcomesOn(Sock) :
         LET r == recv_payload_sessiond(connected, grow, o, len)
         IN /\ reply' = [reply EXCEPT ![t] = Grown(@, grow, len)]
            /\ IF grow
                 THEN Logged(t, Ev(e, Sock, RecvRes(connected, o)))
                 ELSE UNCHANGED log
            /\ ret' = [ret EXCEPT ![t] = r]
            /\ pc' = [pc EXCEPT ![t] = Goto(r, PayloadSteps, p)]
     ELSE
       /\ pc' = [pc EXCEPT ![t] = After(PayloadSteps, p)]
       /\ UNCHANGED <<reply, log, ret>>
  /\ UNCHANGED <<sessiond_socket, connected, closes, api, args, llm, out,
                 mysock, ncalls, sessiond_sock_path, resolving, params>>

ask_payload_recv_cmd_header(t) ==
  /\ pc[t] = "precv_cmd"
  /\ PayloadSection(t, "precv_cmd", "recv_cmd", llm[t].cmd_header_size)

ask_payload_recv_data(t) ==
  /\ pc[t] = "precv_data"
  /\ PayloadSection(t, "precv_data", "recv_data", llm[t].data_size)

\* if (llm.fd_count > 0) ret = lttcomm_recv_payload_fds_unix_sock(...);
\* a negative result is returned as it is.
ask_payload_recv_fds(t) ==
  /\ pc[t] = "precv_fds"
  /\ IF llm[t].fd_count # Zero THEN
       \E raw \in SendRawOn(Sock) :
         /\ ret' = [ret EXCEPT ![t] = raw]
         /\ Logged(t, Ev("recv_fds", Sock, IF raw < 0 THEN "err" ELSE "full"))
         /\ reply' = [reply EXCEPT ![t].fds =
                        IF raw < 0 THEN @ ELSE @ + U32ToInt(llm[t].fd_count)]
         /\ pc' = [pc EXCEPT ![t] = Goto(raw, PayloadSteps, "precv_fds")]
     ELSE
       /\ pc' = [pc EXCEPT ![t] = After(PayloadSteps, "precv_fds")]
       /\ UNCHANGED <<ret, log, reply>>
  /\ UNCHANGED <<sessiond_socket, connected, closes, api, args, llm, out,
                 mysock, ncalls, sessiond_sock_path, resolving, params>>

\* memmove() the sections down over the header, shrink the buffer by
\* sizeof(llm) (a shrink does not fail: the abort() is not reached), and
\* ret = reply->buffer.size.
ask_payload_strip(t) ==
  /\ pc[t] = "strip"
  /\ reply' = [reply EXCEPT ![t].size = SzSub(@, U32(SizeofLlm))]
  /\ ret' = [ret EXCEPT ![t] = SzToInt(SzSub(reply[t].size, U32(SizeofLlm)))]
  /\ pc' = [pc EXCEPT ![t] = "disconnect"]
  /\ UNCHANGED <<sessiond_socket, connected, closes, api, args, llm, log,
                 out, mysock, ncalls, sessiond_sock_path, resolving, params>>

(***************************************************************************)
(* Public operations.  Each validates its arguments, builds its request,   *)
(* runs one transport call and post-processes the reply.                   *)
(***************************************************************************)
\* What lttng_dynamic_buffer_append and the serializers return on failure.
HelperErr == 0 - 1

\* lttng_ctl_ask_sessiond(lsm, buf): the fixed-header transport with no
\* descriptors, no variable data and no command header output.
lttng_ctl_ask_sessiond(buf) == ArgsOf(FALSE, 0, FALSE, 0, buf, FALSE, FALSE)

\* The operation returns r without a transport call.
Done(r) == [ask |-> FALSE, ret |-> r, args |-> NoArgs]
\* The operation runs the transport with arguments ar.
Ask(ar) == [ask |-> TRUE, ret |-> 0, args |-> ar]

\* Thread t enters public operation a with arguments p; d is what the code
\* before the transport call decided.
EnterOp(t, a, p, d) ==
  /\ params' = [params EXCEPT ![t] = p]
  /\ Enter(t, a, d.args, IF d.ask THEN "connect" ELSE "returned", d.ret)

\* A dereference of a NULL pointer: the process dies, or the access was
\* compiled away and the operation carries on.
NullDeref == {"crash", "elided"}

\* `return lttng_ctl_ask_sessiond(...)' and the operations whose epilogue
\* only releases locals: the transport's result is the operation's.
ReturnAsk(t, a) ==
  /\ pc[t] = "post"
  /\ api[t] = a
  /\ pc' = [pc EXCEPT ![t] = "returned"]
  /\ UNCHANGED <<sessiond_socket, connected, closes, api, args, llm, ret,
                 log, out, reply, mysock, ncalls, sessiond_sock_path, resolving, params>>

\* ---- lttng_start_tracing(session_name) ----
StartParams == {[session_name |-> n] : n \in BOOLEAN}

lttng_start_tracing(t) ==
  /\ CanCall(t)
  /\ \E p \in StartParams :
       EnterOp(t, "lttng_start_tracing", p,
               IF ~p.session_name THEN Done(0 - LTTNG_ERR_INVALID)
               ELSE Ask(lttng_ctl_ask_sessiond(FALSE)))

lttng_start_tracing_return(t) ==
  /\ pc[t] = "post"
  /\ ReturnAsk(t, "lttng_start_tracing")

\* ---- lttng_enable_event_with_exclusions(handle, ev, channel_name,
\*      filter_expression, exclusion_count, exclusion_list) ----
\* handle, ev: non-NULL; filter: NULL, "" or an expression; agent: the
\* domain is JUL, LOG4J or PYTHON; terminated: the exclusion names are
\* NUL-terminated; probe: ev carries a userspace probe location.
ValidEnableParams ==
  {[handle |-> TRUE, ev |-> TRUE, filter |-> f, agent |-> a,
    exclusion_count |-> n, terminated |-> TRUE, probe |-> pr,
    payload |-> "init", shortcut |-> FALSE] :
     f \in {"null", "text"}, a \in BOOLEAN, n \in 0..1, pr \in BOOLEAN}

EnableParams ==
  ValidEnableParams
  \cup UNION {{[p EXCEPT !.handle = FALSE], [p EXCEPT !.ev = FALSE],
               [p EXCEPT !.filter = "empty"],
               [p EXCEPT !.terminated = FALSE]} :
                p \in {q \in ValidEnableParams :
                         /\ q.filter = "text" /\ ~q.agent
                         /\ q.exclusion_count = 1 /\ ~q.probe}}

\* Outcomes of the helpers the operation calls: set_agent_filter returned a
\* string; the filter parser's result; lttng_dynamic_buffer_set_capacity;
\* which lttng_dynamic_buffer_append fails; the probe serializer's result;
\* lttng_payload_view_get_fd_handle_count; lttng_payload_view_pop_fd_handle.
EnableEnv ==
  [agent_filter : BOOLEAN, parse : {0, 0 - LTTNG_ERR_FILTER_INVAL},
   capacity : BOOLEAN, append : {"none", "excl", "filter", "bytecode"},
   serialize : {HelperErr, 1}, fd_count : {0 - 1, 0, 1}, pop : BOOLEAN]

enable_event_before_ask(p, e) ==
  IF ~p.handle \/ ~p.ev THEN Done(0 - LTTNG_ERR_INVALID)
  ELSE IF p.filter = "empty" THEN Done(0 - LTTNG_ERR_INVALID)
  ELSE IF p.agent /\ ~e.agent_filter /\ p.filter = "null"
    THEN Ask(lttng_ctl_ask_sessiond(FALSE))
  ELSE
    LET \* the parser ran: ctx and filter_expression are non-NULL
        parsed == p.filter = "text" \/ p.agent
        \* ret once the buffer is built
        built == IF p.probe THEN e.serialize ELSE 0
        size == IF p.exclusion_count > 0 \/ parsed \/ p.probe THEN 1 ELSE 0
    IN
      IF parsed /\ e.parse # 0 THEN Done(e.parse)
      ELSE IF ~e.capacity THEN Done(0 - LTTNG_ERR_EXCLUSION_NOMEM)
      ELSE IF p.exclusion_count > 0 /\ ~p.terminated
        THEN Done(0 - LTTNG_ERR_INVALID)
      ELSE IF p.exclusion_count > 0 /\ e.append = "excl" THEN Done(HelperErr)
      ELSE IF parsed /\ e.append = "filter" THEN Done(HelperErr)
      ELSE IF parsed /\ e.append = "bytecode" THEN Done(HelperErr)
      ELSE IF p.probe /\ e.serialize < 0 THEN Done(e.serialize)
      ELSE IF e.fd_count < 0 THEN Done(built)
      ELSE IF e.fd_count = 1 /\ ~e.pop THEN Done(built)
      ELSE Ask(ArgsOf(e.fd_count # 0, e.fd_count, size # 0, size,
                      FALSE, FALSE, FALSE))

\* `goto ask_sessiond': an agent domain, no agent filter and no filter.
enable_event_skips_ahead(p, e) ==
  /\ p.handle /\ p.ev /\ p.filter # "empty"
  /\ p.agent /\ ~e.agent_filter /\ p.filter = "null"

\* lttng_payload_init(&payload) is the first statement; every path that
\* does not ask the daemon ends at `error: lttng_payload_reset(&payload)'.
lttng_enable_event_with_exclusions(t) ==
  /\ CanCall(t)
  /\ \E p \in EnableParams, e \in EnableEnv :
       /\ e.fd_count = 1 => p.probe
       /\ LET d == enable_event_before_ask(p, e)
          IN EnterOp(t, "lttng_enable_event_with_exclusions",
                     [p EXCEPT !.payload = IF d.ask THEN "init"
                                           ELSE "released",
                               !.shortcut = enable_event_skips_ahead(p, e)],
                     d)

\* After the transport call: through mem_error, filter_error and error to
\* lttng_payload_reset(&payload), or, from ask_sessiond, `return ret'.
lttng_enable_event_with_exclusions_return(t) ==
  /\ pc[t] = "post"
  /\ api[t] = "lttng_enable_event_with_exclusions"
  /\ pc' = [pc EXCEPT ![t] = "returned"]
  /\ params' = [params EXCEPT ![t].payload =
                  IF params[t].shortcut THEN @ ELSE "released"]
  /\ UNCHANGED <<sessiond_socket, connected, closes, api, args, llm, ret,
                 log, out, reply, mysock, ncalls, sessiond_sock_path,
                 resolving>>

\* ---- lttng_list_sessions(out_sessions) ----
\* sizeof(struct lttng_session_extended) and sizeof(struct lttng_session),
\* scaled down.
sizeof_lttng_session_extended == 1
sizeof_lttng_session == RecordSize - sizeof_lttng_session_extended
session_size == sizeof_lttng_session + sizeof_lttng_session_extended

\* sessions_extended_begin = &sessions[session_count], as an offset.
sessions_extended_begin_at_base(session_count) == 0

sessions_extended_begin(session_count) ==
  session_count * sizeof_lttng_session

\* The loop over the sessions: session->extended.ptr of record i is
\* &sessions_extended_begin[i].
session_extended_ptrs(session_count) ==
  [i \in 1..session_count |->
     sessions_extended_begin(session_count)
       + (i - 1) * sizeof_lttng_session_extended]

ListSessionsParams == {[out_sessions |-> o] : o \in BOOLEAN}

lttng_list_sessions(t) ==
  /\ CanCall(t)
  /\ \E p \in ListSessionsParams :
       EnterOp(t, "lttng_list_sessions", p,
               Ask(lttng_ctl_ask_sessiond(TRUE)))

\* The code after the transport call: `if (ret <= 0) goto end' onwards.
lttng_list_sessions_end(t) ==
  /\ pc[t] = "post"
  /\ api[t] = "lttng_list_sessions"
  /\ IF ret[t] <= 0 THEN
       /\ pc' = [pc EXCEPT ![t] = "returned"]
       /\ UNCHANGED <<ret, out>>
     ELSE IF out[t].payload_buf # "alloc" THEN
       /\ pc' = [pc EXCEPT ![t] = "returned"]
       /\ ret' = [ret EXCEPT ![t] = 0 - LTTNG_ERR_FATAL]
       /\ UNCHANGED out
     ELSE
       LET bad == ret[t] % session_size # 0
           r == IF bad THEN 0 - LTTNG_ERR_UNK ELSE ret[t] \div session_size
           stored == IF bad THEN "null" ELSE "alloc"
       IN
         /\ ret' = [ret EXCEPT ![t] = r]
         /\ IF params[t].out_sessions THEN
              /\ out' = [out EXCEPT ![t].user = stored, ![t].freed = bad,
                                    ![t].extended =
                                      IF bad THEN <<>>
                                      ELSE session_extended_ptrs(r)]
              /\ pc' = [pc EXCEPT ![t] = "returned"]
            ELSE
              /\ out' = [out EXCEPT ![t].freed = bad,
                                    ![t].extended =
                                      IF bad THEN <<>>
                                      ELSE session_extended_ptrs(r)]
              /\ \E u \in NullDeref :
                   pc' = [pc EXCEPT ![t] =
                            IF u = "crash" THEN "crashed" ELSE "returned"]
  /\ UNCHANGED <<sessiond_socket, connected, closes, api, args, llm, log,
                 reply, mysock, ncalls, sessiond_sock_path, resolving, params>>

\* ---- lttng_list_channels(handle, channels) ----
sizeof_lttng_channel_extended == 1
sizeof_lttng_channel == RecordSize - sizeof_lttng_channel_extended
channel_size == sizeof_lttng_channel + sizeof_lttng_channel_extended

\* The loop over the channels: chan->attr.extended.ptr = extended_at, then
\* extended_at += sizeof(struct lttng_channel_extended).  i records are
\* done, extended_at is the running offset.
RECURSIVE channel_extended_ptrs(_, _, _)
channel_extended_ptrs(channel_count, i, extended_at) ==
  IF i >= channel_count THEN <<>>
  ELSE <<extended_at>>
         \o channel_extended_ptrs(channel_count, i + 1,
              extended_at + sizeof_lttng_channel_extended)

\* extended_at = ((void *) *channels) + channel_count * sizeof(struct
\* lttng_channel), as an offset.
channels_extended_at(channel_count) == channel_count * sizeof_lttng_channel

ListChannelsParams == [handle : BOOLEAN, channels : BOOLEAN]

lttng_list_channels(t) ==
  /\ CanCall(t)
  /\ \E p \in ListChannelsParams :
       EnterOp(t, "lttng_list_channels", p,
               IF ~p.handle THEN Done(0 - LTTNG_ERR_INVALID)
               ELSE Ask(lttng_ctl_ask_sessiond(p.channels)))

\* The code after the transport call: `if (ret < 0) goto end' onwards.
\* The reply buffer is *channels itself.
lttng_list_channels_end(t) ==
  /\ pc[t] = "post"
  /\ api[t] = "lttng_list_channels"
  /\ IF ret[t] < 0 THEN
       /\ pc' = [pc EXCEPT ![t] = "returned"]
       /\ UNCHANGED <<ret, out>>
     ELSE
       LET bad == ret[t] % channel_size # 0
           r == IF bad THEN 0 - LTTNG_ERR_UNK ELSE ret[t] \div channel_size
       IN
         /\ ret' = [ret EXCEPT ![t] = r]
         /\ IF params[t].channels THEN
              /\ out' = [out EXCEPT ![t].payload_buf =
                                      IF bad THEN "null" ELSE @,
                                    ![t].freed = bad,
                                    ![t].extended =
                                      IF bad THEN <<>>
                                      ELSE channel_extended_ptrs(r, 0,
                                             channels_extended_at(r))]
              /\ pc' = [pc EXCEPT ![t] = "returned"]
            ELSE
              /\ UNCHANGED out
              /\ \E u \in NullDeref :
                   pc' = [pc EXCEPT ![t] =
                            IF u = "crash" THEN "crashed" ELSE "returned"]
  /\ UNCHANGED <<sessiond_socket, connected, closes, api, args, llm, log,
                 reply, mysock, ncalls, sessiond_sock_path, resolving, params>>

\* ---- lttng_register_trigger(trigger) ----
\* trigger: non-NULL; uid: the trigger's credentials are unset, the
\* caller's effective uid, or another user's; root: geteuid() is 0; valid:
\* lttng_trigger_validate accepts it; fds: descriptors it serializes;
\* named: the trigger carries the name the daemon assigned; given: the
\* credentials the caller handed it over with; serialized: the credentials
\* lttng_trigger_serialize saw; released: the payloads passed to
\* lttng_payload_reset.
ValidTriggerParams ==
  {[trigger |-> TRUE, uid |-> u, root |-> r, valid |-> TRUE, fds |-> n,
    named |-> FALSE, given |-> u, serialized |-> "none", released |-> {}] :
     u \in {"unset", "euid", "other"}, r \in BOOLEAN, n \in 0..1}

TriggerParams ==
  ValidTriggerParams
  \cup UNION {{[p EXCEPT !.trigger = FALSE], [p EXCEPT !.valid = FALSE]} :
                p \in {q \in ValidTriggerParams :
                         q.uid = "unset" /\ ~q.root /\ q.fds = 0}}

\* Outcomes of lttng_dynamic_buffer_append and lttng_trigger_serialize.
TriggerEnv == [append : BOOLEAN, serialize : BOOLEAN]

register_trigger_before_ask(p, e) ==
  IF ~p.trigger THEN Done(0 - LTTNG_ERR_INVALID)
  ELSE IF p.uid = "other" /\ ~p.root THEN Done(0 - LTTNG_ERR_EPERM)
  ELSE IF ~p.valid THEN Done(0 - LTTNG_ERR_INVALID_TRIGGER)
  ELSE IF ~e.append THEN Done(0 - LTTNG_ERR_NOMEM)
  ELSE IF ~e.serialize THEN Done(0 - LTTNG_ERR_UNK)
  ELSE Ask(ArgsOf(p.fds > 0, p.fds, TRUE, 1, FALSE, FALSE, FALSE))

\* A trigger left as the caller handed it over.
trigger_keeps_credentials(p) == p

\* lttng_trigger_set_credentials(trigger, &user_creds) when none are set.
trigger_with_credentials(p) ==
  IF p.trigger /\ p.uid = "unset" THEN [p EXCEPT !.uid = "euid"] ELSE p

\* `end:' of both operations: lttng_payload_reset(&message);
\* lttng_payload_reset(&reply).
trigger_end_keeps_reply == {"message"}

trigger_end == {"message", "reply"}

\* The trigger and the payloads when the code before the transport call is
\* over: lttng_trigger_serialize is reached once the checks and the append
\* have passed, and a path that does not ask goes to `end'.
trigger_before_ask(p, e) ==
  LET q == trigger_with_credentials(p)
      reached == /\ p.trigger /\ ~(p.uid = "other" /\ ~p.root)
                 /\ p.valid /\ e.append
  IN [q EXCEPT !.serialized = IF reached THEN q.uid ELSE "none",
               !.released = IF register_trigger_before_ask(p, e).ask
                            THEN {} ELSE trigger_end]

lttng_register_trigger(t) ==
  /\ CanCall(t)
  /\ \E p \in TriggerParams, e \in TriggerEnv :
       EnterOp(t, "lttng_register_trigger", trigger_before_ask(p, e),
               register_trigger_before_ask(p, e))

\* The code after the transport call: read the trigger back from the
\* reply, take its name, and release message and reply.
lttng_register_trigger_end(t) ==
  /\ pc[t] = "post"
  /\ api[t] = "lttng_register_trigger"
  /\ IF ret[t] < 0 THEN
       /\ UNCHANGED ret
       /\ params' = [params EXCEPT ![t].released = trigger_end]
     ELSE \E create \in BOOLEAN, assign \in BOOLEAN :
            IF ~create \/ ~assign THEN
              /\ ret' = [ret EXCEPT ![t] = 0 - LTTNG_ERR_FATAL]
              /\ params' = [params EXCEPT ![t].released = trigger_end]
            ELSE
              /\ ret' = [ret EXCEPT ![t] = 0]
              /\ params' = [params EXCEPT ![t].named = TRUE,
                                          ![t].released = trigger_end]
  /\ reply' = [reply EXCEPT ![t] = NoReply]
  /\ pc' = [pc EXCEPT ![t] = "returned"]
  /\ UNCHANGED <<sessiond_socket, connected, closes, api, args, llm, log,
                 out, mysock, ncalls, sessiond_sock_path, resolving>>

\* ---- lttng_unregister_trigger(trigger) ----
\* The same checks, append and serialization come before the transport
\* call.
lttng_unregister_trigger(t) ==
  /\ CanCall(t)
  /\ \E p \in TriggerParams, e \in TriggerEnv :
       EnterOp(t, "lttng_unregister_trigger", trigger_before_ask(p, e),
               register_trigger_before_ask(p, e))

\* The code after the transport call: `if (ret < 0) goto end; ret = 0;' and
\* the release of message and reply.
lttng_unregister_trigger_end(t) ==
  /\ pc[t] = "post"
  /\ api[t] = "lttng_unregister_trigger"
  /\ ret' = [ret EXCEPT ![t] = IF ret[t] < 0 THEN ret[t] ELSE 0]
  /\ params' = [params EXCEPT ![t].released = trigger_end]
  /\ reply' = [reply EXCEPT ![t] = NoReply]
  /\ pc' = [pc EXCEPT ![t] = "returned"]
  /\ UNCHANGED <<sessiond_socket, connected, closes, api, args, llm, log,
                 out, mysock, ncalls, sessiond_sock_path, resolving>>

\* ---- _lttng_stop_tracing(session_name, wait), lttng_stop_tracing,
\*      lttng_stop_tracing_no_wait, lttng_data_pending ----
\* A further exchange of the same operation begins: the locals of the
\* previous transport call are gone.
StartExchange(t, ar) ==
  /\ pc' = [pc EXCEPT ![t] = "connect"]
  /\ args' = [args EXCEPT ![t] = ar]
  /\ ret' = [ret EXCEPT ![t] = 0]
  /\ llm' = [llm EXCEPT ![t] = NoLlm]
  /\ log' = [log EXCEPT ![t] = <<>>]
  /\ out' = [out EXCEPT ![t] = NoOut]
  /\ mysock' = [mysock EXCEPT ![t] = 0 - 1]

\* The byte the daemon answers a data-pending command with.
PendingBytes == {0, 1}

\* The code of lttng_data_pending after its transport call: r is what the
\* transport returned, buf what it stored through &pending, byte the
\* content of the buffer.
data_pending_result(r, buf, byte) ==
  IF r < 0 THEN r
  ELSE IF r # 1 THEN 0 - LTTNG_ERR_INVALID
  ELSE IF buf # "alloc" THEN 0 - LTTNG_ERR_UNK
  ELSE byte

\* What the one-byte buffer of thread t's exchange can hold: the daemon's
\* byte when it arrived, the zero zmalloc() left otherwise.
PendingContent(t) ==
  IF \E i \in DOMAIN log[t] :
       log[t][i].ev = "recv_data" /\ log[t][i].res = "full"
    THEN PendingBytes ELSE {0}

\* session_name: non-NULL; asked: what the transport call returned, kept for
\* the record.
DataPendingParams == {[session_name |-> n, asked |-> 0] : n \in BOOLEAN}

lttng_data_pending(t) ==
  /\ CanCall(t)
  /\ \E p \in DataPendingParams :
       EnterOp(t, "lttng_data_pending", p,
               IF ~p.session_name THEN Done(0 - LTTNG_ERR_INVALID)
               ELSE Ask(lttng_ctl_ask_sessiond(TRUE)))

lttng_data_pending_end(t) ==
  /\ pc[t] = "post"
  /\ api[t] = "lttng_data_pending"
  /\ \E byte \in PendingContent(t) :
       ret' = [ret EXCEPT ![t] =
                 data_pending_result(ret[t], out[t].payload_buf, byte)]
  /\ out' = [out EXCEPT ![t].freed = (out[t].payload_buf = "alloc")]
  /\ params' = [params EXCEPT ![t].asked = ret[t]]
  /\ pc' = [pc EXCEPT ![t] = "returned"]
  /\ UNCHANGED <<sessiond_socket, connected, closes, api, args, llm, log,
                 reply, mysock, ncalls, sessiond_sock_path, resolving>>

\* The two entry points of _lttng_stop_tracing.
StopApis == {"lttng_stop_tracing", "lttng_stop_tracing_no_wait"}

\* session_name: non-NULL; wait: the data-pending poll is asked for.  The
\* rest is the history of the call: exchanges started, the stop exchange's
\* result, data-pending checks made, how many answered pending, the last
\* answer, and usleep() calls made.
StopParams(w) ==
  {[session_name |-> n, wait |-> w, phase |-> "stop", exchanges |-> 0,
    stop_ret |-> 0, checks |-> 0, pendings |-> 0, last |-> 0,
    sleeps |-> 0] : n \in BOOLEAN}

_lttng_stop_tracing(t, a, w) ==
  \E p \in StopParams(w) :
    EnterOp(t, a, [p EXCEPT !.exchanges = IF p.session_name THEN 1 ELSE 0],
            IF ~p.session_name THEN Done(0 - LTTNG_ERR_INVALID)
            ELSE Ask(lttng_ctl_ask_sessiond(FALSE)))

lttng_stop_tracing(t) ==
  /\ CanCall(t)
  /\ _lttng_stop_tracing(t, "lttng_stop_tracing", TRUE)

lttng_stop_tracing_no_wait(t) ==
  /\ CanCall(t)
  /\ _lttng_stop_tracing(t, "lttng_stop_tracing_no_wait", FALSE)

\* lttng_destroy_session runs _lttng_stop_tracing(session_name, 1) first.
StopCallers == StopApis \cup {"lttng_destroy_session"}

\* Where _lttng_stop_tracing returns to: its caller's caller, or the rest of
\* lttng_destroy_session.
StopEnd(t) ==
  IF api[t] = "lttng_destroy_session" THEN "stopped" ELSE "returned"

\* A stop exchange that failed for good: any error but `already stopped'.
stop_failed_never(r) == FALSE

\* A stop exchange for which `already stopped' is a failure like any other.
stop_failed_on_any_error(r) == r < 0

stop_failed(r) == r < 0 /\ r # 0 - LTTNG_ERR_TRACE_ALREADY_STOPPED

\* After the stop exchange: `if (ret < 0 && ret != -..ALREADY_STOPPED) goto
\* error; if (!wait) goto end;' or the first lttng_data_pending call.
stop_tracing_after_stop(t) ==
  /\ pc[t] = "post"
  /\ api[t] \in StopCallers
  /\ params[t].phase = "stop"
  /\ IF stop_failed(ret[t]) \/ ~params[t].wait THEN
       /\ params' = [params EXCEPT ![t].stop_ret = ret[t]]
       /\ pc' = [pc EXCEPT ![t] = StopEnd(t)]
       /\ UNCHANGED <<args, ret, llm, log, out, mysock>>
     ELSE
       /\ params' = [params EXCEPT ![t].stop_ret = ret[t],
                                   ![t].phase = "poll",
                                   ![t].exchanges = @ + 1]
       /\ StartExchange(t, lttng_ctl_ask_sessiond(TRUE))
  /\ UNCHANGED <<sessiond_socket, connected, closes, api, reply, ncalls, sessiond_sock_path, resolving>>

\* What the loop does with data_ret: leave with the error, sleep and ask
\* again, or leave with the stop command's result.
poll_retries_errors(data_ret) == IF data_ret = 0 THEN "end" ELSE "sleep"

poll_leaves_on_pending(data_ret) == IF data_ret < 0 THEN "error" ELSE "end"

poll_sleeps_always(data_ret) == IF data_ret < 0 THEN "error" ELSE "sleep"

poll_ignores_answer(data_ret) == "sleep"

poll_decision(data_ret) ==
  IF data_ret < 0 THEN "error"
  ELSE IF data_ret # 0 THEN "sleep"
  ELSE "end"

\* data_ret = lttng_data_pending(session_name), from the end of its
\* transport call, and the tests on data_ret.
stop_tracing_data_pending(t) ==
  /\ pc[t] = "post"
  /\ api[t] \in StopCallers
  /\ params[t].phase = "poll"
  /\ \E byte \in PendingContent(t) :
       LET data_ret == data_pending_result(ret[t], out[t].payload_buf, byte)
           d == poll_decision(data_ret)
       IN /\ params' = [params EXCEPT
                          ![t].checks = @ + 1,
                          ![t].last = data_ret,
                          ![t].pendings = IF data_ret > 0 THEN @ + 1 ELSE @]
          /\ ret' = [ret EXCEPT ![t] =
                       IF d = "error" THEN data_ret ELSE params[t].stop_ret]
          /\ pc' = [pc EXCEPT ![t] =
                      IF d = "sleep" THEN "sleep" ELSE StopEnd(t)]
  /\ out' = [out EXCEPT ![t].freed = (out[t].payload_buf = "alloc")]
  /\ UNCHANGED <<sessiond_socket, connected, closes, api, args, llm, log,
                 reply, mysock, ncalls, sessiond_sock_path, resolving>>

\* usleep(DEFAULT_DATA_AVAILABILITY_WAIT_TIME_US).
stop_tracing_usleep(t) ==
  /\ pc[t] = "sleep"
  /\ params' = [params EXCEPT ![t].sleeps = @ + 1]
  /\ pc' = [pc EXCEPT ![t] = "again"]
  /\ UNCHANGED <<sessiond_socket, connected, closes, api, args, llm, ret,
                 log, out, reply, mysock, ncalls, sessiond_sock_path, resolving>>

\* `while (data_ret != 0)': the next lttng_data_pending call begins.
stop_tracing_poll_again(t) ==
  /\ pc[t] = "again"
  /\ params[t].checks < MaxPolls
  /\ params' = [params EXCEPT ![t].exchanges = @ + 1]
  /\ StartExchange(t, lttng_ctl_ask_sessiond(TRUE))
  /\ UNCHANGED <<sessiond_socket, connected, closes, api, reply, ncalls, sessiond_sock_path, resolving>>

\* ---- lttng_destroy_session(session_name) ----
\* What lttng_destroy_session_ext and lttng_destruction_handle_get_result
\* report as enum lttng_error_code, and the statuses of a destruction
\* handle.
DestroyCodes == {LTTNG_OK, LTTNG_ERR_UNK, LTTNG_ERR_NO_SESSIOND}
WaitStatuses == {"COMPLETED", "ERROR"}
ResultStatuses == {"OK", "INVALID"}

\* The call begins with _lttng_stop_tracing(session_name, 1).  handle is
\* the destruction handle, trail the steps passed, destroyed the number of
\* lttng_destruction_handle_destroy calls, stop_result what
\* _lttng_stop_tracing returned.
lttng_destroy_session(t) ==
  /\ CanCall(t)
  /\ \E n \in BOOLEAN :
       /\ params' = [params EXCEPT ![t] =
                       [session_name |-> n, wait |-> TRUE, phase |-> "stop",
                        exchanges |-> IF n THEN 1 ELSE 0, stop_ret |-> 0,
                        checks |-> 0, pendings |-> 0, last |-> 0,
                        sleeps |-> 0, handle |-> "null", trail |-> <<>>,
                        destroyed |-> 0, stop_result |-> 0]]
       /\ Enter(t, "lttng_destroy_session",
                IF n THEN lttng_ctl_ask_sessiond(FALSE) ELSE NoArgs,
                IF n THEN "connect" ELSE "stopped",
                IF n THEN 0 ELSE 0 - LTTNG_ERR_INVALID)

\* One step of the call after the stop phase, leaving ret at r.
DestroyStep(t, next, r, event) ==
  /\ pc' = [pc EXCEPT ![t] = next]
  /\ ret' = [ret EXCEPT ![t] = r]
  /\ params' = [params EXCEPT ![t].trail = Append(@, event),
                              ![t].stop_result =
                                IF pc[t] = "stopped" THEN ret[t] ELSE @]
  /\ UNCHANGED <<sessiond_socket, connected, closes, api, args, llm, log,
                 out, reply, mysock, ncalls, sessiond_sock_path, resolving>>

\* if (ret && ret != -LTTNG_ERR_TRACE_ALREADY_STOPPED) goto end;
destroy_session_stopped(t) ==
  /\ pc[t] = "stopped"
  /\ api[t] = "lttng_destroy_session"
  /\ IF ret[t] # 0 /\ ret[t] # 0 - LTTNG_ERR_TRACE_ALREADY_STOPPED
     THEN DestroyStep(t, "end", ret[t], "stop_failed")
     ELSE DestroyStep(t, "ext", ret[t], "stopped")

\* ret_code = lttng_destroy_session_ext(session_name, &handle);
\* if (ret_code != LTTNG_OK) { ret = (int) -ret_code; goto end; }
destroy_session_ext(t) ==
  /\ pc[t] = "ext"
  /\ \E ret_code \in DestroyCodes :
       IF ret_code # LTTNG_OK
       THEN DestroyStep(t, "end", 0 - ret_code, "refused")
       ELSE /\ pc' = [pc EXCEPT ![t] = "wait"]
            /\ params' = [params EXCEPT ![t].trail = Append(@, "accepted"),
                                        ![t].handle = "created"]
            /\ UNCHANGED <<sessiond_socket, connected, closes, api, args,
                           llm, ret, log, out, reply, mysock, ncalls,
                           sessiond_sock_path, resolving>>

\* status = lttng_destruction_handle_wait_for_completion(handle, -1);
destroy_session_wait(t) ==
  /\ pc[t] = "wait"
  /\ \E status \in WaitStatuses :
       IF status # "COMPLETED"
       THEN DestroyStep(t, "end", 0 - LTTNG_ERR_UNK, "wait_failed")
       ELSE DestroyStep(t, "result", ret[t], "completed")

\* What the call returns for the final result code.
final_result(ret_code) == IF ret_code = LTTNG_OK THEN 0 ELSE 0 - ret_code

\* status = lttng_destruction_handle_get_result(handle, &ret_code);
\* ret = ret_code == LTTNG_OK ? 0 : -ret_code;
destroy_session_get_result(t) ==
  /\ pc[t] = "result"
  /\ \E status \in ResultStatuses, ret_code \in DestroyCodes :
       IF status # "OK"
       THEN DestroyStep(t, "end", 0 - LTTNG_ERR_UNK, "no_result")
       ELSE DestroyStep(t, "end", final_result(ret_code),
                        IF ret_code = LTTNG_OK THEN "success" ELSE "failure")

\* end: lttng_destruction_handle_destroy(handle); return ret;
destroy_session_end(t) ==
  /\ pc[t] = "end"
  /\ pc' = [pc EXCEPT ![t] = "returned"]
  /\ params' = [params EXCEPT ![t].destroyed = @ + 1,
                              ![t].handle = IF @ = "created"
                                            THEN "destroyed" ELSE @]
  /\ UNCHANGED <<sessiond_socket, connected, closes, api, args, llm, ret,
                 log, out, reply, mysock, ncalls, sessiond_sock_path,
                 resolving>>

\* ---- lttng_destroy_session_no_wait(session_name) ----
\* The call begins: nothing is done before lttng_destroy_session_ext.
lttng_destroy_session_no_wait(t) ==
  /\ CanCall(t)
  /\ \E n \in BOOLEAN :
       /\ params' = [params EXCEPT ![t] =
                       [session_name |-> n, wait |-> FALSE,
                        exchanges |-> 0, checks |-> 0, handle |-> "null",
                        trail |-> <<>>, destroyed |-> 0]]
       /\ Enter(t, "lttng_destroy_session_no_wait", NoArgs, "ext_no_wait", 0)

\* return ret_code == LTTNG_OK ? ret_code : -ret_code;
no_wait_result(ret_code) ==
  IF ret_code = LTTNG_OK THEN ret_code ELSE 0 - ret_code

\* ret_code = lttng_destroy_session_ext(session_name, NULL), and the
\* return.
destroy_session_no_wait_ext(t) ==
  /\ pc[t] = "ext_no_wait"
  /\ api[t] = "lttng_destroy_session_no_wait"
  /\ \E ret_code \in DestroyCodes :
       /\ ret' = [ret EXCEPT ![t] = no_wait_result(ret_code)]
       /\ params' = [params EXCEPT ![t].trail =
                       Append(@, IF ret_code = LTTNG_OK THEN "accepted"
                                 ELSE "refused")]
  /\ pc' = [pc EXCEPT ![t] = "returned"]
  /\ UNCHANGED <<sessiond_socket, connected, closes, api, args, llm, log,
                 out, reply, mysock, ncalls, sessiond_sock_path, resolving>>

\* ---- lttng_list_events(handle, channel_name, events) ----
\* Sizes of the 64-bit ABI.
sizeof_lttng_event == 584
sizeof_lttng_event_extended == 32
LTTNG_SYMBOL_NAME_LEN == 256
sizeof_uint64_t == 8
\* Bytes lttng_userspace_probe_location_flatten writes for the probe
\* locations of the replies considered.
ProbeFlatSize == 21

ALIGN_TO(v, align) == ((v + align - 1) \div align) * align

\* One extended header of the reply: struct lttcomm_event_extended_header
\* with the probe location that follows it present and well formed,
\* present and rejected by its parser, or absent.
ExtendedHeader(f, x, p) ==
  [filter_len |-> f, nb_exclusions |-> x, probe |-> p]

\* The extended headers considered: a bare record, a filter and two
\* exclusions, exclusions or a filter before a probe location, and a probe
\* location that does not parse.
ExtendedHeaders ==
  {ExtendedHeader(0, 0, "none"),
   ExtendedHeader(12, 2, "none"), ExtendedHeader(0, 2, "valid"),
   ExtendedHeader(12, 0, "valid"), ExtendedHeader(0, 0, "invalid")}

\* Bytes of one struct lttcomm_event_extended_header, and of the
\* serialized probe locations of the replies considered.
sizeof_ext_comm == 12
ProbeWireLen == 30

\* Bytes of the data section taken by the extended data of one record.
WireLen(h) ==
  sizeof_ext_comm + h.filter_len + h.nb_exclusions * LTTNG_SYMBOL_NAME_LEN
  + (IF h.probe = "none" THEN 0 ELSE ProbeWireLen)

\* Offset, in the data section, of the extended header of record i: the
\* records come first, then the extended data of each record in turn.
RECURSIVE WireAt(_, _)
WireAt(recs, i) ==
  IF i = 1 THEN Len(recs) * sizeof_lttng_event
  ELSE WireAt(recs, i - 1) + WireLen(recs[i - 1])

WireSize(recs) == WireAt(recs, Len(recs) + 1)

\* A reply of n records: recs is what the walk over the payload reads as
\* extended headers, copy what the walk over the payload's copy reads, and
\* data_len the length of the data section.
Reply(k, r, c, d) == [kind |-> k, recs |-> r, copy |-> c, data_len |-> d]

\* What a listing reply holds: nothing where the command header should be,
\* a record count above INT_MAX, or nb_events records and their extended
\* data, as long as the header declares.
ListingReplies ==
  {Reply("short", <<>>, <<>>, 0), Reply("overflow", <<>>, <<>>, 0)}
  \cup UNION {{Reply("listing", r, r, WireSize(r)) :
                 r \in [1..n -> ExtendedHeaders]} : n \in 0..MaxEvents}

\* What the bytes past the end of a buffer are read as.
GarbageHeaders == {ExtendedHeader(0, 0, "none"), ExtendedHeader(12, 2, "none")}

\* The first k records of r, followed by the records g.
Declared(r, k, g) == [i \in 1..Len(g) + k |-> IF i <= k THEN r[i] ELSE g[i - k]]

\* Replies that declare more than they carry: nb_events records declared
\* and no data at all, or the extended data of the first k records only;
\* or the last byte of the last record's filter or exclusion names missing.
TruncatedReplies ==
  UNION {UNION {UNION {
    {Reply("truncated", Declared(r, kn[1], g), Declared(r, kn[1], c),
           WireAt(Declared(r, kn[1], g), kn[1] + 1)),
     Reply("truncated", Declared(r, kn[1], g), Declared(r, kn[1], c), 0)} :
       g \in [1..kn[2] - kn[1] -> GarbageHeaders],
       c \in [1..kn[2] - kn[1] -> GarbageHeaders]} :
     r \in [1..kn[1] -> ExtendedHeaders]} :
   kn \in {x \in (0..MaxEvents - 1) \X (1..MaxEvents) : x[1] < x[2]}}
  \cup UNION {{Reply("truncated", r, r, WireSize(r) - 1) :
                 r \in {q \in [1..n -> ExtendedHeaders] :
                          q[n] = ExtendedHeader(12, 2, "none")}} :
              n \in 1..MaxEvents}

\* A read past the end of the buffer: the process dies, or reads whatever
\* lies there.
OutOfBounds == {"crash", "garbage"}

Null == 0 - 1
NoPtrs ==
  [ext |-> Null, filter_expression |-> Null, exclusions |-> Null,
   probe_location |-> Null, count |-> 0, filter_src |-> Null,
   filter_len |-> 0, exclusions_src |-> Null, probe_src |-> Null]

\* The locals of lttng_list_events once the transport call has returned r:
\* calls counts the helper calls made, label is the label jumped to,
\* comm_ext_at is an offset in the data section, events the bytes of the
\* data section copied to the start of the listing, oob whether a byte
\* outside a buffer was accessed.
ListLocals(r, l) ==
  [ret |-> r, calls |-> 0, label |-> "none", storage_req |-> 0,
   size |-> 0, capacity |-> 0, relocated |-> FALSE,
   ptrs |-> [i \in 1..Len(l.recs) |-> NoPtrs],
   listing |-> "uninit", payload |-> "held", payload_copy |-> "init",
   assigned |-> FALSE, comm_ext_at |-> 0,
   events |-> [at |-> Null, src |-> Null, len |-> 0], oob |-> FALSE]

\* ret = -code; goto label.
Abort(S, code, label) == [S EXCEPT !.ret = 0 - code, !.label = label]

\* n bytes are read at comm_ext_at in a data section of l.data_len bytes.
PastTheEnd(S, l, n) == S.comm_ext_at + n > l.data_len

\* The access went past the end: outcome u.
Oob(S, u) ==
  IF u = "crash" THEN [S EXCEPT !.oob = TRUE, !.label = "crash"]
  ELSE [S EXCEPT !.oob = TRUE]

\* Capacity asked of lttng_dynamic_buffer_set_capacity.
reserve_nothing(storage_req) == 0

reserve_one_more(storage_req) == storage_req + 1

reserve(storage_req) == storage_req

\* lttng_dynamic_buffer_set_size and _append on the listing: n more bytes,
\* zeroed or copied; the storage moves when the capacity is exceeded.
Grow(S, n) ==
  [S EXCEPT !.size = @ + n,
            !.capacity = IF S.size + n > @ THEN S.size + n ELSE @,
            !.relocated = @ \/ S.size + n > S.capacity,
            !.listing = IF S.size + n > 0 THEN "allocated" ELSE @]

\* What one record adds to storage_req in the measure pass.
measured_unaligned(storage_req, h) ==
  storage_req + sizeof_lttng_event_extended + h.filter_len
  + h.nb_exclusions * LTTNG_SYMBOL_NAME_LEN
  + (IF h.probe = "none" THEN 0 ELSE ProbeFlatSize)

measured(storage_req, h) ==
  ALIGN_TO(storage_req + sizeof_lttng_event_extended + h.filter_len
           + h.nb_exclusions * LTTNG_SYMBOL_NAME_LEN, sizeof_uint64_t)
  + (IF h.probe = "none" THEN 0 ELSE ProbeFlatSize)

\* The size the flatten pass pads the listing to before a probe location.
padded_to_16(size) == ALIGN_TO(size, 2 * sizeof_uint64_t)

padded(size) == ALIGN_TO(size, sizeof_uint64_t)

\* comm_ext_at once the extended header under it is skipped.
header_not_skipped(at) == at

header_skipped(at) == at + sizeof_ext_comm

\* The statements of the function after the transport call, in order.
MeasureOps(l) ==
  [i \in 1..Len(l.recs) |->
     <<[op |-> "measure_read", i |-> i]>>
     \o (IF l.recs[i].probe = "none" THEN <<>>
         ELSE <<[op |-> "measure_create", i |-> i],
                [op |-> "measure_flatten", i |-> i]>>)
     \o <<[op |-> "measure_add", i |-> i]>>]

FlattenOps(l) ==
  [i \in 1..Len(l.copy) |->
     <<[op |-> "extended", i |-> i]>>
     \o (IF l.copy[i].filter_len = 0 THEN <<>>
         ELSE <<[op |-> "filter", i |-> i]>>)
     \o (IF l.copy[i].nb_exclusions = 0 THEN <<>>
         ELSE <<[op |-> "exclusions", i |-> i]>>)
     \o <<[op |-> "pad", i |-> i]>>
     \o (IF l.copy[i].probe = "none" THEN <<>>
         ELSE <<[op |-> "create", i |-> i], [op |-> "flatten", i |-> i]>>)]

RECURSIVE Concat(_, _)
Concat(f, i) == IF i > Len(f) THEN <<>> ELSE f[i] \o Concat(f, i + 1)

ListOps(l) ==
  <<[op |-> "payload_copy", i |-> 0], [op |-> "cmd_header", i |-> 0],
    [op |-> "nb_events", i |-> 0], [op |-> "storage_req", i |-> 0]>>
  \o Concat(MeasureOps(l), 1)
  \o <<[op |-> "set_capacity", i |-> 0], [op |-> "append_view", i |-> 0]>>
  \o Concat(FlattenOps(l), 1)
  \o <<[op |-> "assign", i |-> 0]>>

\* One statement o, on locals S: fail is the ordinal of the helper call
\* that fails (0: none does), u the outcome of an access out of bounds.
\* The measure pass walks the payload (h), the flatten pass its copy (c).
ListExec(o, S, l, fail, u) ==
  LET C == [S EXCEPT !.calls = @ + 1]
      fails == S.calls + 1 = fail
      h == l.recs[o.i]
      c == l.copy[o.i]
      N == Len(l.recs)
  IN CASE o.op = "payload_copy" ->
            IF fails THEN Abort(C, LTTNG_ERR_NOMEM, "end")
            ELSE [C EXCEPT !.payload_copy = "held"]
       [] o.op = "cmd_header" ->
            IF l.kind = "short"
            THEN Abort(S, LTTNG_ERR_INVALID_PROTOCOL, "end") ELSE S
       [] o.op = "nb_events" ->
            IF l.kind = "overflow"
            THEN Abort(S, LTTNG_ERR_OVERFLOW, "end") ELSE S
       [] o.op = "storage_req" ->
            [S EXCEPT !.storage_req = N * sizeof_lttng_event,
                      !.comm_ext_at = N * sizeof_lttng_event]
       [] o.op = "measure_read" ->
            LET T == [S EXCEPT !.comm_ext_at =
                        header_skipped(@) + h.filter_len
                        + h.nb_exclusions * LTTNG_SYMBOL_NAME_LEN]
            IN IF PastTheEnd(S, l, sizeof_ext_comm) THEN Oob(T, u) ELSE T
       [] o.op = "measure_create" ->
            IF PastTheEnd(S, l, ProbeWireLen)
            THEN Abort(S, LTTNG_ERR_PROBE_LOCATION_INVAL, "end")
            ELSE IF fails \/ h.probe = "invalid"
            THEN Abort(C, LTTNG_ERR_PROBE_LOCATION_INVAL, "end") ELSE C
       [] o.op = "measure_flatten" ->
            IF fails THEN Abort(C, LTTNG_ERR_PROBE_LOCATION_INVAL, "end")
            ELSE C
       [] o.op = "measure_add" ->
            [S EXCEPT !.storage_req = measured(@, h),
                      !.comm_ext_at = IF h.probe = "none" THEN @
                                      ELSE @ + ProbeWireLen]
       [] o.op = "set_capacity" ->
            IF fails
            THEN Abort([C EXCEPT !.listing = "init"], LTTNG_ERR_NOMEM, "end")
            ELSE [C EXCEPT !.capacity = reserve(S.storage_req),
                           !.listing = IF reserve(S.storage_req) > 0
                                       THEN "allocated" ELSE "init"]
       [] o.op = "append_view" ->
            IF fails THEN Abort(C, LTTNG_ERR_NOMEM, "free_dynamic_buffer")
            ELSE IF N * sizeof_lttng_event > l.data_len
            THEN [C EXCEPT !.comm_ext_at = N * sizeof_lttng_event]
            ELSE [Grow(C, N * sizeof_lttng_event)
                    EXCEPT !.comm_ext_at = N * sizeof_lttng_event,
                           !.events = [at |-> S.size, src |-> 0,
                                       len |-> N * sizeof_lttng_event]]
       [] o.op = "extended" ->
            IF fails THEN Abort(C, LTTNG_ERR_NOMEM, "free_dynamic_buffer")
            ELSE LET T == [Grow(C, sizeof_lttng_event_extended)
                             EXCEPT !.ptrs[o.i].ext = S.size,
                                    !.comm_ext_at = header_skipped(@)]
                 IN IF \/ PastTheEnd(S, l, sizeof_ext_comm)
                       \/ o.i * sizeof_lttng_event > S.events.len
                    THEN Oob(T, u) ELSE T
       [] o.op = "filter" ->
            LET P == [C EXCEPT !.ptrs[o.i].filter_expression = S.size]
                T == [Grow(P, c.filter_len)
                        EXCEPT !.ptrs[o.i].filter_src = S.comm_ext_at,
                               !.ptrs[o.i].filter_len = c.filter_len,
                               !.comm_ext_at = @ + c.filter_len]
            IN IF fails THEN Abort(P, LTTNG_ERR_NOMEM, "free_dynamic_buffer")
               ELSE IF PastTheEnd(S, l, c.filter_len) THEN Oob(T, u) ELSE T
       [] o.op = "exclusions" ->
            LET n == c.nb_exclusions * LTTNG_SYMBOL_NAME_LEN
                P == [C EXCEPT !.ptrs[o.i].exclusions = S.size,
                               !.ptrs[o.i].count = c.nb_exclusions]
                T == [Grow(P, n)
                        EXCEPT !.ptrs[o.i].exclusions_src = S.comm_ext_at,
                               !.comm_ext_at = @ + n]
            IN IF fails THEN Abort(P, LTTNG_ERR_NOMEM, "free_dynamic_buffer")
               ELSE IF PastTheEnd(S, l, n) THEN Oob(T, u) ELSE T
       [] o.op = "pad" ->
            IF fails THEN Abort(C, LTTNG_ERR_NOMEM, "free_dynamic_buffer")
            ELSE Grow(C, padded(S.size) - S.size)
       [] o.op = "create" ->
            IF PastTheEnd(S, l, ProbeWireLen)
            THEN Abort(S, LTTNG_ERR_PROBE_LOCATION_INVAL,
                       "free_dynamic_buffer")
            ELSE IF fails \/ c.probe = "invalid"
            THEN Abort(C, LTTNG_ERR_PROBE_LOCATION_INVAL,
                       "free_dynamic_buffer")
            ELSE C
       [] o.op = "flatten" ->
            IF fails
            THEN Abort([C EXCEPT !.ptrs[o.i].probe_location = S.size],
                       LTTNG_ERR_PROBE_LOCATION_INVAL, "free_dynamic_buffer")
            ELSE [Grow(C, ProbeFlatSize)
                    EXCEPT !.ptrs[o.i].probe_location = S.size,
                           !.ptrs[o.i].probe_src = S.comm_ext_at,
                           !.comm_ext_at = @ + ProbeWireLen]
       [] o.op = "assign" ->
            [S EXCEPT !.assigned = TRUE, !.ret = N,
                      !.listing = IF S.listing = "allocated"
                                  THEN "given" ELSE "init"]

\* The helper calls that can fail for lack of memory, and how many of them
\* a listing makes at most.
FallibleOps ==
  {"payload_copy", "measure_create", "measure_flatten", "set_capacity",
   "append_view", "extended", "filter", "exclusions", "pad", "create",
   "flatten"}

FallibleCalls(ops) ==
  Cardinality({j \in DOMAIN ops : ops[j].op \in FallibleOps})

RECURSIVE ListRun(_, _, _, _, _, _)
ListRun(ops, j, S, l, fail, u) ==
  IF j > Len(ops) \/ S.label # "none" THEN S
  ELSE LET T == ListExec(ops[j], S, l, fail, u)
       IN ListRun(ops, j + 1, T, l, fail, u)

\* free_dynamic_buffer: lttng_dynamic_buffer_reset(&listing); end:
\* lttng_payload_reset(&payload); lttng_payload_reset(&payload_copy).
ListEpilogue_keeps_listing(S) ==
  [S EXCEPT !.payload = "released", !.payload_copy = "released"]

ListEpilogue(S) ==
  [S EXCEPT !.listing = IF S.label # "end" /\ @ = "allocated"
                        THEN "released" ELSE @,
            !.payload = "released",
            !.payload_copy = "released"]

\* The function from the return of the transport call to its own, or to
\* the death of the process.
list_events_after_ask(r, l, ops, fail, u) ==
  LET S == IF r < 0 THEN [ListLocals(r, l) EXCEPT !.label = "end"]
           ELSE ListRun(ops, 1, ListLocals(r, l), l, fail, u)
  IN IF S.label = "crash" THEN S ELSE ListEpilogue(S)

\* lttng_payload_reset() of a struct lttng_payload that was never
\* initialized: free() of whatever the stack held.
UninitializedReset == {"crash", "returns"}

\* payloads: whether lttng_payload_init ran on payload and payload_copy;
\* reset: whether lttng_payload_reset was called on them.
ListEventsParams ==
  [handle : BOOLEAN, channel_name : BOOLEAN, events : BOOLEAN,
   done : {FALSE}, payloads : {"uninit"}, reset : {FALSE}]

lttng_list_events(t) ==
  /\ CanCall(t)
  /\ \E p \in ListEventsParams :
       IF p.handle /\ p.channel_name THEN
         EnterOp(t, "lttng_list_events", [p EXCEPT !.payloads = "init"],
                 Ask(ArgsOf(FALSE, 0, TRUE, 1, FALSE, FALSE, FALSE)))
       ELSE
         \E u \in UninitializedReset :
           /\ params' = [params EXCEPT ![t] = [p EXCEPT !.reset = TRUE]]
           /\ Enter(t, "lttng_list_events", NoArgs,
                    IF u = "crash" THEN "crashed" ELSE "returned",
                    0 - LTTNG_ERR_INVALID)

\* The code after the transport call, on a reply of R.  The reply holds
\* nothing when the reply buffer is empty.  A helper is made to fail on the
\* replies that are as long as they declare.
lttng_list_events_end(t, R) ==
  /\ pc[t] = "post"
  /\ api[t] = "lttng_list_events"
  /\ \E l \in R :
       /\ ret[t] >= 0 => (l.kind = "short" <=> reply[t].size = Zero)
       /\ ret[t] < 0 => l.kind = "short"
       /\ \E fail \in IF l.kind = "truncated" THEN {0}
                      ELSE 0..FallibleCalls(ListOps(l)),
             u \in IF l.kind = "truncated" THEN OutOfBounds
                   ELSE {"garbage"} :
            LET S == list_events_after_ask(ret[t], l, ListOps(l), fail, u)
            IN /\ params' = [params EXCEPT ![t] =
                               [handle |-> TRUE, channel_name |-> TRUE,
                                events |-> params[t].events, done |-> TRUE,
                                payloads |-> params[t].payloads,
                                reset |-> S.label # "crash",
                                asked |-> ret[t], listing |-> l,
                                fail |-> IF fail > S.calls THEN 0 ELSE fail,
                                locals |-> S]]
               /\ ret' = [ret EXCEPT ![t] = S.ret]
               /\ IF S.label = "crash" THEN
                    pc' = [pc EXCEPT ![t] = "crashed"]
                  ELSE IF S.assigned /\ ~params[t].events THEN
                    \E d \in NullDeref :
                      pc' = [pc EXCEPT ![t] =
                               IF d = "crash" THEN "crashed" ELSE "returned"]
                  ELSE pc' = [pc EXCEPT ![t] = "returned"]
  /\ reply' = [reply EXCEPT ![t] = NoReply]
  /\ UNCHANGED <<sessiond_socket, connected, closes, api, args, llm, log,
                 out, mysock, ncalls, sessiond_sock_path, resolving>>

\* A public operation of thread t starts.
PublicCall(t) ==
  \/ lttng_start_tracing(t)
  \/ lttng_enable_event_with_exclusions(t)
  \/ lttng_list_sessions(t)
  \/ lttng_list_channels(t)
  \/ lttng_register_trigger(t)

\* The code of a public operation after its transport call.
PublicEnd(t) ==
  \/ lttng_start_tracing_return(t)
  \/ lttng_enable_event_with_exclusions_return(t)
  \/ lttng_list_sessions_end(t)
  \/ lttng_list_channels_end(t)
  \/ lttng_register_trigger_end(t)

(***************************************************************************)
(* Specifications.                                                         *)
(***************************************************************************)
\* One step of either transport by thread t.
TransportStep(t, H, U) ==
  \/ connect_sessiond_as_root(t)
  \/ ask_fds_send_msg(t)
  \/ ask_fds_send_varlen(t)
  \/ ask_fds_send_fds(t)
  \/ ask_fds_recv_header(t, H, U)
  \/ ask_fds_recv_cmd_header(t)
  \/ ask_fds_recv_data(t)
  \/ ask_payload_send_creds(t)
  \/ ask_payload_send_fds(t)
  \/ ask_payload_recv_header(t, H, U)
  \/ ask_payload_recv_cmd_header(t)
  \/ ask_payload_recv_data(t)
  \/ ask_payload_recv_fds(t)
  \/ ask_payload_strip(t)
  \/ ask_disconnect(t)

\* A sequential caller: one thread, one call after the other.
Next ==
  \E t \in SeqThreads :
    \/ lttng_ctl_ask_sessiond_fds_varlen(t, FdsArgs)
    \/ lttng_ctl_ask_sessiond_payload(t, PayloadArgs)
    \/ PublicCall(t)
    \/ TransportStep(t, Headers, Unwritten)
    \/ PublicEnd(t)
    \/ Return(t)

Spec == Init /\ [][Next]_vars

\* One thread that stops tracing and asks whether data is pending.
StopStep(t) ==
  \/ connect_sessiond_as_root(t)
  \/ ask_fds_send_msg(t)
  \/ ask_fds_send_varlen(t)
  \/ ask_fds_send_fds(t)
  \/ ask_fds_recv_header(t, Headers, Unwritten)
  \/ ask_fds_recv_cmd_header(t)
  \/ ask_fds_recv_data(t)
  \/ ask_disconnect(t)
  \/ lttng_data_pending_end(t)
  \/ stop_tracing_after_stop(t)
  \/ stop_tracing_data_pending(t)
  \/ stop_tracing_usleep(t)
  \/ stop_tracing_poll_again(t)

NextStop ==
  \E t \in SeqThreads :
    \/ lttng_data_pending(t)
    \/ lttng_stop_tracing(t)
    \/ lttng_stop_tracing_no_wait(t)
    \/ StopStep(t)
    \/ Return(t)

SpecStop == Init /\ [][NextStop]_vars

\* A call under way keeps running: the thread is scheduled, and each
\* blocking socket operation ends, with the daemon's bytes, its hang-up or
\* an error.
SpecStopFair == SpecStop /\ \A t \in SeqThreads : WF_vars(StopStep(t))

\* One thread that only lists events.  The daemon answers with a bare
\* header, or a command header and data, with or without a descriptor.
ListHeaders ==
  {HeaderOf(U32(LTTNG_OK), Zero, Zero, Zero),
   HeaderOf(U32(LTTNG_OK), U32(1), U32(1), Zero),
   HeaderOf(U32(LTTNG_OK), U32(1), U32(1), U32(1))}
ListUnwritten == {HeaderOf(Zero, Zero, Zero, Zero)}

ListStep(t) ==
  \/ connect_sessiond_as_root(t)
  \/ ask_payload_send_creds(t)
  \/ ask_payload_send_fds(t)
  \/ ask_payload_recv_header(t, ListHeaders, ListUnwritten)
  \/ ask_payload_recv_cmd_header(t)
  \/ ask_payload_recv_data(t)
  \/ ask_payload_recv_fds(t)
  \/ ask_payload_strip(t)
  \/ ask_disconnect(t)

NextList ==
  \E t \in SeqThreads :
    \/ lttng_list_events(t)
    \/ ListStep(t)
    \/ lttng_list_events_end(t, ListingReplies)
    \/ Return(t)

SpecList == Init /\ [][NextList]_vars

\* The same thread, and a daemon whose replies may declare more than they
\* carry.
NextListAny ==
  \E t \in SeqThreads :
    \/ lttng_list_events(t)
    \/ ListStep(t)
    \/ lttng_list_events_end(t, ListingReplies \cup TruncatedReplies)
    \/ Return(t)

SpecListAny == Init /\ [][NextListAny]_vars

\* Two threads of one process, their steps interleaved in any order.  Each
\* thread sends variable data and a descriptor and asks for every output.
ConcFdsArgs == {ArgsOf(TRUE, 1, TRUE, 1, TRUE, TRUE, TRUE)}
ConcPayloadArgs == {ArgsOf(TRUE, 1, TRUE, 1, FALSE, FALSE, FALSE)}
ConcHeaders ==
  {HeaderOf(U32(LTTNG_OK), U32(1), U32(1), U32(1)),
   HeaderOf(U32(LTTNG_ERR_UNK), Zero, Zero, Zero)}
ConcUnwritten == {HeaderOf(U32(LTTNG_OK), Zero, Zero, Zero)}

NextConc ==
  \E t \in Threads :
    \/ lttng_ctl_ask_sessiond_fds_varlen(t, ConcFdsArgs)
    \/ lttng_ctl_ask_sessiond_payload(t, ConcPayloadArgs)
    \/ TransportStep(t, ConcHeaders, ConcUnwritten)
    \/ Return(t)

SpecConc == Init /\ [][NextConc]_vars

\* One thread of any caller: root or not, in the tracing group or not, with
\* or without a global daemon.
PathHeaders == {HeaderOf(U32(LTTNG_OK), Zero, Zero, Zero)}

FdsStep(t, H, U) ==
  \/ ask_fds_send_msg(t)
  \/ ask_fds_send_varlen(t)
  \/ ask_fds_send_fds(t)
  \/ ask_fds_recv_header(t, H, U)
  \/ ask_fds_recv_cmd_header(t)
  \/ ask_fds_recv_data(t)
  \/ ask_disconnect(t)

NextPath ==
  \E t \in SeqThreads :
    \/ lttng_ctl_ask_sessiond_fds_varlen(t, ConcFdsArgs)
    \/ connect_sessiond(t, Callers)
    \/ FdsStep(t, ConcHeaders, ConcUnwritten)
    \/ Return(t)

SpecPath == Init /\ [][NextPath]_vars

\* Two threads of one process, whose user is in the tracing group; the
\* global daemon comes and goes.
ConcCallers ==
  {c \in Callers : c.uid = 1000 /\ c.member /\ c.home_fits}

NextPathConc ==
  \E t \in Threads :
    \/ lttng_ctl_ask_sessiond_fds_varlen(t, {NoArgs})
    \/ connect_sessiond(t, ConcCallers)
    \/ FdsStep(t, PathHeaders, ConcUnwritten)
    \/ Return(t)

SpecPathConc == Init /\ [][NextPathConc]_vars

\* One thread that destroys sessions.
DestroyStepOf(t) ==
  \/ destroy_session_stopped(t)
  \/ destroy_session_ext(t)
  \/ destroy_session_wait(t)
  \/ destroy_session_get_result(t)
  \/ destroy_session_end(t)

NextDestroy ==
  \E t \in SeqThreads :
    \/ lttng_destroy_session(t)
    \/ lttng_destroy_session_no_wait(t)
    \/ destroy_session_no_wait_ext(t)
    \/ lttng_stop_tracing(t)
    \/ FdsStep(t, Headers, Unwritten)
    \/ connect_sessiond_as_root(t)
    \/ stop_tracing_after_stop(t)
    \/ stop_tracing_data_pending(t)
    \/ stop_tracing_usleep(t)
    \/ stop_tracing_poll_again(t)
    \/ DestroyStepOf(t)
    \/ Return(t)

SpecDestroy == Init /\ [][NextDestroy]_vars

\* One thread that lists sessions and channels.  The daemon answers with
\* up to MaxEvents records, with a data section that is not a whole number
\* of records, with a listing of 2 GiB or more, or with an error.
U32Mod(v, m) == ((v[1] % m) * (Half % m) + v[2]) % m
U32Div(v, m) == (v[1] \div m) * Half + ((v[1] % m) * Half + v[2]) \div m

\* The smallest whole number of records that does not fit an int.
LargeListing == <<Half \div 2, (RecordSize - U32Mod(BigSize, RecordSize)) % RecordSize>>

RecordHeaders ==
  {HeaderOf(U32(LTTNG_OK), h, d, Zero) :
     h \in {Zero, U32(1)},
     d \in {U32(n) : n \in 0..(MaxEvents * RecordSize + 1)}
            \cup {LargeListing}}
  \cup {HeaderOf(U32(LTTNG_ERR_UNK), Zero, Zero, Zero)}

\* What an llm no byte was written into may hold: a listing of one record,
\* or of none.
RecordUnwritten ==
  {HeaderOf(U32(LTTNG_OK), Zero, d, Zero) : d \in {Zero, U32(RecordSize)}}

NextRecords ==
  \E t \in SeqThreads :
    \/ lttng_list_sessions(t)
    \/ lttng_list_channels(t)
    \/ connect_sessiond_as_root(t)
    \/ FdsStep(t, RecordHeaders, RecordUnwritten)
    \/ lttng_list_sessions_end(t)
    \/ lttng_list_channels_end(t)
    \/ Return(t)

SpecRecords == Init /\ [][NextRecords]_vars

\* One thread that registers and unregisters triggers.  The daemon answers
\* as it answers a listing, or with an error.
TriggerHeaders ==
  ListHeaders \cup {HeaderOf(U32(LTTNG_ERR_UNK), Zero, Zero, Zero)}

TriggerStep(t) ==
  \/ connect_sessiond_as_root(t)
  \/ ask_payload_send_creds(t)
  \/ ask_payload_send_fds(t)
  \/ ask_payload_recv_header(t, TriggerHeaders, ListUnwritten)
  \/ ask_payload_recv_cmd_header(t)
  \/ ask_payload_recv_data(t)
  \/ ask_payload_recv_fds(t)
  \/ ask_payload_strip(t)
  \/ ask_disconnect(t)

NextTrigger ==
  \E t \in SeqThreads :
    \/ lttng_register_trigger(t)
    \/ lttng_unregister_trigger(t)
    \/ TriggerStep(t)
    \/ lttng_register_trigger_end(t)
    \/ lttng_unregister_trigger_end(t)
    \/ Return(t)

SpecTrigger == Init /\ [][NextTrigger]_vars

(***************************************************************************)
(* Vocabulary of the properties.                                           *)
(***************************************************************************)
\* The transport call of thread t has returned.
AskReturned(t) ==
  pc[t] = "post" \/ (pc[t] = "returned" /\ api[t] \in TransportApis)

\* Thread t is past the transport call of its operation, if it made one.
PastTransport(t) == pc[t] \in {"post", "returned", "crashed"}

OnFdsPath(t) == api[t] # "none" /\ api[t] \notin PayloadApis
OnPayloadPath(t) == api[t] \in PayloadApis

HasEv(t, e, r) ==
  \E i \in DOMAIN log[t] : log[t][i].ev = e /\ log[t][i].res = r

Did(t, e) == \E i \in DOMAIN log[t] : log[t][i].ev = e

NumEv(t, e) == Cardinality({i \in DOMAIN log[t] : log[t][i].ev = e})

RecvEvents == {"recv_hdr", "recv_cmd", "recv_data", "recv_fds"}
SendEvents == {"send_msg", "send_varlen", "send_fds"}

\* The value of a uint32_t that fits an int.
FitsInt(v) == v[1] < Half \div 2
Val(v) == v[1] * Half + v[2]

\* The public operations of the model.
PublicApis ==
  {"lttng_start_tracing", "lttng_enable_event_with_exclusions",
   "lttng_list_sessions", "lttng_list_channels", "lttng_register_trigger",
   "lttng_unregister_trigger",
   "lttng_data_pending", "lttng_stop_tracing", "lttng_stop_tracing_no_wait",
   "lttng_list_events"}

\* The call of thread t was handed an argument its operation cannot use.
InvalidArguments(t) ==
  CASE api[t] \in {"lttng_start_tracing", "lttng_data_pending",
                   "lttng_stop_tracing", "lttng_stop_tracing_no_wait"} ->
         ~params[t].session_name
    [] api[t] = "lttng_enable_event_with_exclusions" ->
         \/ ~params[t].handle
         \/ ~params[t].ev
         \/ params[t].filter = "empty"
         \/ (params[t].exclusion_count > 0 /\ ~params[t].terminated)
    [] api[t] = "lttng_list_sessions" -> ~params[t].out_sessions
    [] api[t] = "lttng_list_channels" ->
         ~params[t].handle \/ ~params[t].channels
    [] api[t] \in {"lttng_register_trigger", "lttng_unregister_trigger"} ->
         ~params[t].trigger \/ ~params[t].valid
    [] api[t] = "lttng_list_events" ->
         ~params[t].handle \/ ~params[t].channel_name \/ ~params[t].events
    [] OTHER -> FALSE

\* The call of thread t has returned the error of a check on one of its
\* arguments: a check made before any transport call, or the `!user_buf'
\* check on the output pointer, made once the data block has arrived.
RejectedByValidation(t) ==
  /\ pc[t] = "returned"
  /\ InvalidArguments(t)
  /\ ret[t] \in {0 - LTTNG_ERR_INVALID, 0 - LTTNG_ERR_INVALID_TRIGGER}
  /\ \/ log[t] = <<>>
     \/ /\ ~args[t].user_payload_buf
        /\ HasEv(t, "recv_hdr", "full")
        /\ HasEv(t, "recv_data", "full")

(***************************************************************************)
(* C1: in a sequential caller, a call whose connect succeeded closes its   *)
(* connection exactly once before it returns, on every path; a call whose  *)
(* connect failed closes nothing; and once a call has returned the global  *)
(* state is unconnected (connected = 0, sessiond_socket = -1).             *)
(***************************************************************************)
C1_ClosedOnceThenUnconnected ==
  /\ \A t \in Threads :
       PastTransport(t) =>
         IF mysock[t] # 0 - 1
           THEN /\ NumEv(t, "close") = 1
                /\ log[t][Len(log[t])] = Ev("close", mysock[t], "ok")
                /\ closes[mysock[t]] = 1
           ELSE NumEv(t, "close") = 0
  /\ (\A t \in Threads : pc[t] = "idle" \/ PastTransport(t)) =>
       /\ connected = 0
       /\ sessiond_socket = 0 - 1
       /\ \A c \in DOMAIN closes : closes[c] = 1

\* A call that failed while receiving the data block has returned.
C1_Witness ==
  \E t \in Threads :
    /\ AskReturned(t)
    /\ mysock[t] # 0 - 1
    /\ HasEv(t, "recv_data", "err")
    /\ ret[t] < 0

(***************************************************************************)
(* C2: when lttng_ctl_ask_sessiond_fds_varlen returns a negative value it  *)
(* has stored no allocation through user_cmd_header_buf or                 *)
(* user_payload_buf.                                                       *)
(***************************************************************************)
C2_NoBufferHandedOverOnFailure ==
  \A t \in Threads :
    (AskReturned(t) /\ OnFdsPath(t) /\ ret[t] < 0) =>
      (out[t].cmd_buf # "alloc" /\ out[t].payload_buf # "alloc")

(***************************************************************************)
(* C3: a transport call returns a non-negative value only if the reply     *)
(* header and every section it declares were received in full; a receive   *)
(* ended by the daemon's shutdown (0 bytes) never leads to a non-negative   *)
(* return and never has the header's fields interpreted.                   *)
(***************************************************************************)
C3_SuccessOnlyAfterCompleteReply ==
  \A t \in Threads :
    /\ (AskReturned(t) /\ ret[t] >= 0) =>
         /\ HasEv(t, "recv_hdr", "full")
         /\ llm[t].set
         /\ llm[t].cmd_header_size # Zero => HasEv(t, "recv_cmd", "full")
         /\ llm[t].data_size # Zero => HasEv(t, "recv_data", "full")
         /\ \A e \in RecvEvents : ~HasEv(t, e, "eof")
    /\ HasEv(t, "recv_hdr", "eof") => ~llm[t].set

(***************************************************************************)
(* C4: header gating.  Once a reply header whose result code is not        *)
(* LTTNG_OK was read, the call performs no further receive, whatever sizes *)
(* and descriptor count the header declares: the header read is the last   *)
(* socket operation before the close.                                      *)
(***************************************************************************)
C4_HeaderGating ==
  \A t \in Threads :
    (llm[t].set /\ llm[t].ret_code # U32(LTTNG_OK)) =>
      /\ pc[t] \in {"disconnect", "post", "returned", "crashed"}
      /\ ~Did(t, "recv_cmd") /\ ~Did(t, "recv_data") /\ ~Did(t, "recv_fds")
      /\ \A i \in DOMAIN log[t] :
           log[t][i].ev = "recv_hdr" =>
             \A j \in (i + 1)..Len(log[t]) : log[t][j].ev = "close"

\* A failed reply that declares a command header, data and a descriptor was
\* received in full and the call has returned.
C4_Witness ==
  \E t \in Threads :
    /\ AskReturned(t)
    /\ HasEv(t, "recv_hdr", "full")
    /\ llm[t].set
    /\ llm[t].ret_code = U32(LTTNG_ERR_UNK)
    /\ llm[t].cmd_header_size # Zero
    /\ llm[t].data_size # Zero
    /\ llm[t].fd_count # Zero

(***************************************************************************)
(* C5: when the reply header carries a result code c other than LTTNG_OK,  *)
(* both transports return exactly -c, for every c that fits an int (the    *)
(* error-code range is part of it).                                        *)
(***************************************************************************)
C5_DaemonCodePassedThrough ==
  \A t \in Threads :
    (AskReturned(t) /\ llm[t].set /\ llm[t].ret_code # U32(LTTNG_OK)
       /\ FitsInt(llm[t].ret_code)) =>
      ret[t] = 0 - Val(llm[t].ret_code)

\* The payload path has returned the daemon's LTTNG_ERR_UNK.
C5_Witness ==
  \E t \in Threads :
    /\ AskReturned(t)
    /\ OnPayloadPath(t)
    /\ HasEv(t, "recv_hdr", "full")
    /\ llm[t].set
    /\ llm[t].ret_code = U32(LTTNG_ERR_UNK)
    /\ ret[t] = 0 - LTTNG_ERR_UNK

(***************************************************************************)
(* C6: in a sequential caller a transport call returns                     *)
(* -LTTNG_ERR_NO_SESSIOND if and only if its connect failed, and then it   *)
(* attempted no send and no receive; after a successful connect a send or  *)
(* receive that fails at the socket layer makes the call return            *)
(* -LTTNG_ERR_FATAL.                                                       *)
(***************************************************************************)
SocketFailure(t) ==
  \E i \in DOMAIN log[t] :
    log[t][i].ev \in SendEvents \cup RecvEvents /\ log[t][i].res = "err"

C6_NoSessiondIffConnectFailed ==
  \A t \in Threads :
    AskReturned(t) =>
      /\ ret[t] = 0 - LTTNG_ERR_NO_SESSIOND <=> HasEv(t, "connect", "err")
      /\ HasEv(t, "connect", "err") => Len(log[t]) = 1
      /\ (HasEv(t, "connect", "ok") /\ SocketFailure(t)) =>
           ret[t] = 0 - LTTNG_ERR_FATAL

(***************************************************************************)
(* C7: within one transport call the socket operations come in the order   *)
(* connect, command record (or whole message), variable data, descriptors, *)
(* reply reads.  No reply byte is read before every request write of the   *)
(* call succeeded, descriptors are sent only after the bytes they go with, *)
(* and a failed write is followed by nothing but the close.                *)
(***************************************************************************)
Rank(e) ==
  CASE e = "connect" -> 1
    [] e = "send_msg" -> 2
    [] e = "send_varlen" -> 3
    [] e = "send_fds" -> 4
    [] e \in RecvEvents -> 5
    [] OTHER -> 6

WantsVarlen(t) ==
  OnFdsPath(t) /\ args[t].vardata /\ args[t].vardata_len # 0

WantsFds(t) ==
  IF OnPayloadPath(t) THEN args[t].nb_fd > 0
  ELSE args[t].fds /\ args[t].nb_fd # 0

WritesDone(t) ==
  /\ HasEv(t, "send_msg", "ok")
  /\ WantsVarlen(t) => HasEv(t, "send_varlen", "ok")

C7_RequestWrittenBeforeReplyRead ==
  \A t \in Threads :
    /\ log[t] # <<>> => log[t][1].ev = "connect"
    /\ \A i, j \in DOMAIN log[t] :
         i < j =>
           /\ Rank(log[t][i].ev) <= Rank(log[t][j].ev)
           /\ Rank(log[t][j].ev) < 5 =>
                Rank(log[t][i].ev) < Rank(log[t][j].ev)
           /\ (Rank(log[t][i].ev) < 5 /\ log[t][i].res # "ok") =>
                log[t][j].ev = "close"
    /\ (\E e \in RecvEvents : Did(t, e)) =>
         /\ WritesDone(t)
         /\ WantsFds(t) => HasEv(t, "send_fds", "ok")
    /\ Did(t, "send_fds") => WritesDone(t)
    /\ WantsVarlen(t) \/ ~Did(t, "send_varlen")
    /\ WantsFds(t) \/ ~Did(t, "send_fds")

\* A call that wrote the command, variable data and a descriptor and then
\* read the whole reply header.
C7_Witness ==
  \E t \in Threads :
    /\ HasEv(t, "send_varlen", "ok")
    /\ HasEv(t, "send_fds", "ok")
    /\ HasEv(t, "recv_hdr", "full")

(***************************************************************************)
(* C8: when two threads run transport calls concurrently, each call sends, *)
(* receives and closes only on the connection it opened, closes it exactly *)
(* once, never finds itself `not connected' after its own connect          *)
(* succeeded, and leaves no connection it opened unclosed.                 *)
(***************************************************************************)
C8_EachCallOwnsItsConnection ==
  /\ \A t \in Threads :
       /\ \A i \in DOMAIN log[t] :
            log[t][i].ev # "connect" =>
              (log[t][i].sock = mysock[t] /\ log[t][i].res # "notconn")
       /\ NumEv(t, "close") <= 1
       /\ (AskReturned(t) /\ mysock[t] # 0 - 1) =>
            (NumEv(t, "close") = 1 /\ closes[mysock[t]] = 1)
  /\ \A c \in DOMAIN closes : closes[c] <= 1

(***************************************************************************)
(* C9: a public operation that rejects a caller-supplied argument (NULL    *)
(* handle, event, session name or trigger, empty filter string,            *)
(* unterminated exclusion name, invalid trigger, NULL output pointer)      *)
(* returns its error without any connect attempt: the call that returns    *)
(* -LTTNG_ERR_INVALID or -LTTNG_ERR_INVALID_TRIGGER for such an argument   *)
(* has not called connect_sessiond.                                        *)
(***************************************************************************)
C9_RejectedArgumentsNeverConnect ==
  \A t \in Threads : RejectedByValidation(t) => ~Did(t, "connect")

(***************************************************************************)
(* C10: on success the fixed-header path returns exactly the data_size the *)
(* reply header declares and the payload path returns exactly the size of  *)
(* the stripped reply buffer, cmd_header_size + data_size; every other     *)
(* outcome is a negative value.                                            *)
(***************************************************************************)
\* The whole reply was received and, on the fixed-header path, delivered.
Succeeded(t) ==
  /\ HasEv(t, "recv_hdr", "full")
  /\ llm[t].set
  /\ llm[t].ret_code = U32(LTTNG_OK)
  /\ llm[t].cmd_header_size # Zero => HasEv(t, "recv_cmd", "full")
  /\ llm[t].data_size # Zero => HasEv(t, "recv_data", "full")
  /\ IF OnPayloadPath(t)
       THEN llm[t].fd_count # Zero => HasEv(t, "recv_fds", "full")
       ELSE /\ llm[t].cmd_header_size # Zero => out[t].cmd_buf = "alloc"
            /\ llm[t].data_size # Zero => out[t].payload_buf = "alloc"

C10_SizeOnSuccessNegativeOtherwise ==
  \A t \in Threads :
    AskReturned(t) =>
      IF Succeeded(t) THEN
        /\ ret[t] >= 0
        /\ IF OnPayloadPath(t)
             THEN /\ U32(ret[t]) = reply[t].size
                  /\ reply[t].size =
                       SzAdd(llm[t].cmd_header_size, llm[t].data_size)
             ELSE U32(ret[t]) = llm[t].data_size
      ELSE ret[t] < 0

(***************************************************************************)
(* C11: for a successful reply whose header declares cmd_header_size = 0,  *)
(* data_size = 0 and fd_count = 0, the fixed-header path returns 0, makes  *)
(* no receive after the header, calls zmalloc for neither block, and sets  *)
(* each supplied output pointer to NULL and the supplied command-header    *)
(* length to 0.                                                            *)
(***************************************************************************)
\* The fixed-header call of thread t received a header-only success reply.
HeaderOnlyReply(t) ==
  /\ AskReturned(t)
  /\ OnFdsPath(t)
  /\ HasEv(t, "recv_hdr", "full")
  /\ llm[t] = HeaderOf(U32(LTTNG_OK), Zero, Zero, Zero)

C11_HeaderOnlyReplyYieldsNothing ==
  \A t \in Threads :
    HeaderOnlyReply(t) =>
      /\ ret[t] = 0
      /\ \A e \in {"recv_cmd", "recv_data", "recv_fds"} : ~Did(t, e)
      /\ out[t].zmallocs = 0
      /\ args[t].user_cmd_header_buf => out[t].cmd_buf = "null"
      /\ args[t].user_cmd_header_len => out[t].cmd_len = "zero"
      /\ args[t].user_payload_buf => out[t].payload_buf = "null"

\* Such a call, handed all three output pointers, has returned.
C11_Witness ==
  \E t \in Threads :
    /\ HeaderOnlyReply(t)
    /\ args[t].user_cmd_header_buf
    /\ args[t].user_cmd_header_len
    /\ args[t].user_payload_buf
    /\ ret[t] = 0
    /\ out[t].cmd_len = "zero"

\* ---- the stop operations ----
StopWithWait(t) == api[t] = "lttng_stop_tracing"
StopReturned(t) == api[t] \in StopApis /\ pc[t] = "returned"

\* C12: lttng_stop_tracing returns a non-negative value only when the most
\* recent data-pending check of that call answered 0 (not pending); it
\* never returns success after a check that answered pending.
C12_SuccessOnlyAfterNotPending ==
  \A t \in Threads :
    (StopWithWait(t) /\ pc[t] = "returned" /\ ret[t] >= 0) =>
      /\ params[t].checks > 0
      /\ params[t].last = 0

C12_Witness ==
  \E t \in Threads :
    /\ StopWithWait(t) /\ pc[t] = "returned" /\ ret[t] >= 0
    /\ params[t].pendings > 0
    /\ params[t].last = 0

\* C13: when a data-pending check of the poll loop returns a negative value
\* e, the call returns exactly e: no sleep and no further data-pending check
\* follows it.
C13_CheckErrorReturnedAtOnce ==
  \A t \in Threads :
    (api[t] \in StopApis /\ params[t].checks > 0 /\ params[t].last < 0) =>
      /\ pc[t] = "returned"
      /\ ret[t] = params[t].last
      /\ params[t].sleeps = params[t].checks - 1
      /\ params[t].exchanges = params[t].checks + 1

C13_Witness ==
  \E t \in Threads :
    /\ StopReturned(t)
    /\ params[t].checks = 2
    /\ params[t].last < 0
    /\ ret[t] = params[t].last

\* C14: the number of sleeps equals the number of data-pending checks that
\* answered pending: each pending answer is followed by exactly one sleep
\* before anything else, and no sleep follows a not-pending answer or an
\* error; after the answers pending, pending, not pending there were 3
\* checks and 2 sleeps and the stop command's own result is returned.
C14_OneSleepPerPendingAnswer ==
  \A t \in Threads :
    api[t] \in StopApis =>
      /\ params[t].sleeps =
           params[t].pendings - (IF pc[t] = "sleep" THEN 1 ELSE 0)
      /\ pc[t] = "sleep" => params[t].last > 0
      /\ (pc[t] = "returned" /\ params[t].checks > 0) =>
           /\ params[t].last <= 0
           /\ params[t].pendings = params[t].checks - 1
           /\ params[t].last = 0 => ret[t] = params[t].stop_ret

C14_Witness ==
  \E t \in Threads :
    /\ StopReturned(t)
    /\ params[t].checks = 3 /\ params[t].pendings = 2
    /\ params[t].sleeps = 2 /\ params[t].last = 0
    /\ params[t].stop_ret = 0 /\ ret[t] = 0

\* C15: lttng_stop_tracing_no_wait makes exactly one exchange, no
\* data-pending check and no sleep, and returns the stop exchange's result;
\* when the stop exchange of lttng_stop_tracing fails with an error other
\* than `trace already stopped', no data-pending check is made either.
C15_NoWaitAndFailedStopNeverPoll ==
  \A t \in Threads :
    /\ (api[t] = "lttng_stop_tracing_no_wait" /\ params[t].session_name) =>
         /\ params[t].exchanges = 1
         /\ params[t].checks = 0 /\ params[t].sleeps = 0
         /\ params[t].phase = "stop"
         /\ pc[t] = "returned" => ret[t] = params[t].stop_ret
    /\ (StopReturned(t) /\ params[t].session_name
        /\ params[t].stop_ret < 0
        /\ params[t].stop_ret # 0 - LTTNG_ERR_TRACE_ALREADY_STOPPED) =>
         /\ params[t].exchanges = 1
         /\ params[t].checks = 0 /\ params[t].sleeps = 0
         /\ ret[t] = params[t].stop_ret

C15_Witness ==
  \E t \in Threads :
    /\ api[t] = "lttng_stop_tracing_no_wait" /\ pc[t] = "returned"
    /\ params[t].session_name
    /\ Did(t, "recv_hdr")
    /\ ret[t] = 0

C15_WitnessFailedStop ==
  \E t \in Threads :
    /\ StopWithWait(t) /\ pc[t] = "returned"
    /\ params[t].stop_ret = 0 - LTTNG_ERR_UNK
    /\ params[t].checks = 0

\* A stop-with-wait call of thread t is under way.
StopUnderWay(t) == StopWithWait(t) /\ pc[t] \notin {"idle", "returned"}

\* Every one of the MaxPolls checks the call is followed through answered
\* pending.
PendingThroughout(t) == StopWithWait(t) /\ params[t].pendings = MaxPolls

\* C16: under weak fairness of the call's steps, a stop-with-wait call
\* returns unless every data-pending check so far answered pending; and
\* once the stop command is acknowledged the call returns only upon an
\* answer that is not pending (0) or an error, however many checks answered
\* pending before: the poll has no timeout and no retry bound.
C16_ReturnsUnlessPendingForever ==
  /\ [](\A t \in SeqThreads :
          (StopWithWait(t) /\ pc[t] = "returned" /\ params[t].session_name
           /\ (params[t].stop_ret >= 0
               \/ params[t].stop_ret = 0 - LTTNG_ERR_TRACE_ALREADY_STOPPED)) =>
            (params[t].checks > 0 /\ params[t].last <= 0))
  /\ [](\A t \in SeqThreads :
          PendingThroughout(t) => pc[t] \in {"sleep", "again"})
  /\ \A t \in SeqThreads :
       StopUnderWay(t) ~> (pc[t] = "returned" \/ PendingThroughout(t))

C16_Witness ==
  \E t \in SeqThreads :
    /\ StopWithWait(t) /\ pc[t] = "returned"
    /\ params[t].checks = MaxPolls
    /\ params[t].pendings = MaxPolls - 1
    /\ params[t].last = 0

C16_WitnessStillPolling ==
  \E t \in SeqThreads : PendingThroughout(t) /\ pc[t] = "again"

\* ---- lttng_list_events ----
\* The lttng_list_events call of thread t has run its code after the
\* transport call and returned.
ListReturned(t) ==
  api[t] = "lttng_list_events" /\ pc[t] = "returned" /\ params[t].done

\* Offsets inside a buffer of the given length.
Inside(length) == 0..(length - 1)

\* C17: after a successful lttng_list_events of N > 0 records, every
\* reference stored in the returned buffer (each record's extended-info
\* pointer, and each extended block's filter-expression, exclusion-table
\* and probe-location pointers) is null or an offset strictly below the
\* buffer's final length in the one allocation handed to the caller, which
\* never moved; nothing else the call allocated is left.
C17_ReferencesInsideTheBuffer ==
  \A t \in Threads :
    (ListReturned(t) /\ params[t].events /\ ret[t] > 0) =>
      LET L == params[t].locals
      IN /\ L.assigned /\ L.listing = "given" /\ ~L.relocated
         /\ Len(L.ptrs) = ret[t]
         /\ \A i \in 1..Len(L.ptrs) :
              /\ L.ptrs[i].ext \in Inside(L.size)
              /\ \A f \in {"filter_expression", "exclusions",
                           "probe_location"} :
                   L.ptrs[i][f] \in {Null} \cup Inside(L.size)
         /\ L.payload = "released" /\ L.payload_copy = "released"

C17_Witness ==
  \E t \in Threads :
    /\ ListReturned(t) /\ params[t].events /\ ret[t] = 2
    /\ params[t].locals.ptrs[1].filter_expression # Null
    /\ params[t].locals.ptrs[1].exclusions # Null
    /\ params[t].locals.ptrs[1].probe_location = Null
    /\ params[t].locals.ptrs[2].probe_location # Null
    /\ params[t].locals.ptrs[2].filter_expression = Null

\* The size of the listing once its first n records are flattened:
\* N * sizeof(record), and per record the extended-info block, the filter,
\* the exclusion names, the padding of the running offset to the next
\* 8-byte boundary and the flattened probe location.
RECURSIVE FlattenedSize(_, _)
FlattenedSize(recs, n) ==
  IF n = 0 THEN Len(recs) * sizeof_lttng_event
  ELSE LET at == FlattenedSize(recs, n - 1) + sizeof_lttng_event_extended
                 + recs[n].filter_len
                 + recs[n].nb_exclusions * LTTNG_SYMBOL_NAME_LEN
           padding == (sizeof_uint64_t - (at % sizeof_uint64_t))
                      % sizeof_uint64_t
       IN at + padding
          + (IF recs[n].probe = "none" THEN 0 ELSE ProbeFlatSize)

\* Both passes of the call of thread t have completed.
BothPasses(t) == ListReturned(t) /\ params[t].locals.label = "none"

\* C18: whenever both passes complete, the storage size the measure pass
\* computed equals the final size of the listing buffer after the flatten
\* pass, and both equal N * sizeof(record) plus, per record, the
\* extended-info block, the filter length, the exclusion count times the
\* name width, the padding to the next 8-byte boundary and the flattened
\* probe location.
C18_MeasuredSizeIsFlattenedSize ==
  \A t \in Threads :
    BothPasses(t) =>
      LET L == params[t].locals
          recs == params[t].listing.recs
      IN /\ L.storage_req = L.size
         /\ L.size = FlattenedSize(recs, Len(recs))

C18_Witness ==
  \E t \in Threads :
    /\ BothPasses(t)
    /\ Len(params[t].listing.recs) = 2
    /\ params[t].listing.recs[1] = ExtendedHeader(12, 2, "none")
    /\ params[t].listing.recs[2] = ExtendedHeader(12, 0, "valid")
    /\ params[t].locals.size = params[t].locals.storage_req
    /\ params[t].locals.size % sizeof_uint64_t # 0

\* The call of thread t got its reply and failed afterwards: in the copy
\* of the payload, the measure pass, the reserve step or the flatten pass.
FailedAfterReply(t) ==
  /\ ListReturned(t)
  /\ params[t].asked >= 0
  /\ params[t].locals.label # "none"

\* C19: when lttng_list_events fails in the measure pass, the reserve step
\* or the flatten pass, it returns a negative value, *events is not
\* assigned, the partly built listing buffer is released, and the received
\* payload and its copy are released with the descriptors they hold.
C19_FailureReleasesEverything ==
  \A t \in Threads :
    FailedAfterReply(t) =>
      LET L == params[t].locals
      IN /\ ret[t] < 0
         /\ ~L.assigned
         /\ L.listing \in {"uninit", "init", "released"}
         /\ L.payload = "released" /\ L.payload_copy = "released"

C19_Witness ==
  \E t \in Threads :
    /\ FailedAfterReply(t)
    /\ params[t].locals.label = "free_dynamic_buffer"
    /\ Len(params[t].locals.ptrs) = 2
    /\ params[t].locals.ptrs[2].ext # Null
    /\ params[t].locals.listing = "released"
    /\ llm[t].fd_count = U32(1)
    /\ ret[t] = 0 - LTTNG_ERR_NOMEM

\* The call of thread t got a reply that declares no record.
EmptyListing(t) ==
  /\ ListReturned(t)
  /\ params[t].asked >= 0
  /\ params[t].listing.kind = "listing"
  /\ params[t].listing.recs = <<>>

Listed(t) ==
  /\ ListReturned(t)
  /\ params[t].events
  /\ params[t].locals.assigned
  /\ params[t].listing.kind = "listing"

\* C21: in the buffer handed out, the records are the copy of the first
\* N * sizeof(record) bytes of the reply's data section, placed first; and
\* for every record i, with h the extended header the reply carries for it:
\* the filter-expression reference is set exactly when h.filter_len > 0, and
\* then the bytes under it are the copy of the h.filter_len bytes that
\* follow the header; the exclusion reference and count are set exactly when
\* h.nb_exclusions > 0, and then the count is h.nb_exclusions and the bytes
\* are the copy of the names that follow the filter; the probe-location
\* reference is set exactly when the header declares a probe location, and
\* is then a multiple of 8, taken from the bytes that follow the names.
C21_FlattenedCopyOfTheReply ==
  \A t \in Threads :
    Listed(t) =>
      LET L == params[t].locals
          recs == params[t].listing.recs
      IN /\ L.events = [at |-> 0, src |-> 0,
                        len |-> Len(recs) * sizeof_lttng_event]
         /\ \A i \in 1..Len(recs) :
              LET h == recs[i]
                  p == L.ptrs[i]
                  data == WireAt(recs, i) + sizeof_ext_comm
              IN /\ p.filter_expression # Null <=> h.filter_len > 0
                 /\ h.filter_len > 0 =>
                      p.filter_src = data /\ p.filter_len = h.filter_len
                 /\ p.exclusions # Null <=> h.nb_exclusions > 0
                 /\ p.count # 0 <=> h.nb_exclusions > 0
                 /\ h.nb_exclusions > 0 =>
                      /\ p.count = h.nb_exclusions
                      /\ p.exclusions_src = data + h.filter_len
                 /\ p.probe_location # Null <=> h.probe # "none"
                 /\ h.probe # "none" =>
                      /\ p.probe_location % sizeof_uint64_t = 0
                      /\ p.probe_src = data + h.filter_len
                           + h.nb_exclusions * LTTNG_SYMBOL_NAME_LEN

C21_Witness ==
  \E t \in Threads :
    /\ Listed(t)
    /\ ret[t] = 2
    /\ params[t].listing.recs =
         <<ExtendedHeader(12, 2, "none"), ExtendedHeader(12, 0, "valid")>>
    /\ params[t].locals.ptrs[1].exclusions_src
         = 2 * sizeof_lttng_event + sizeof_ext_comm + 12
    /\ params[t].locals.ptrs[2].filter_expression # Null
    /\ params[t].locals.ptrs[2].probe_location % sizeof_uint64_t = 0

\* The call of thread t decoded, with every helper succeeding, a reply
\* shorter than the command header or than the lengths it declares.
DecodedShortReply(t) ==
  /\ api[t] = "lttng_list_events"
  /\ pc[t] \in {"returned", "crashed"}
  /\ params[t].done
  /\ params[t].asked >= 0
  /\ params[t].fail = 0
  /\ params[t].listing.kind \in {"short", "truncated"}

\* C22: whenever the reply is shorter than the command header, or than the
\* record count and the per-record filter length, exclusion count and
\* probe-location length it declares, lttng_list_events returns
\* -LTTNG_ERR_INVALID_PROTOCOL and has accessed no byte outside the reply
\* buffer or its copy.
C22_ShortReplyIsProtocolViolation ==
  \A t \in Threads :
    DecodedShortReply(t) =>
      /\ pc[t] = "returned"
      /\ ret[t] = 0 - LTTNG_ERR_INVALID_PROTOCOL
      /\ ~params[t].locals.oob

\* The call of thread t reserved the listing and entered the flatten pass.
FlattenPassEntered(t) ==
  /\ ListReturned(t)
  /\ params[t].asked >= 0
  /\ params[t].listing.kind = "listing"
  /\ params[t].locals.label \in {"none", "free_dynamic_buffer"}

\* C28: in the flatten pass, whether it completes or stops at a failed
\* step, no step (copy of the records, extended-info insert, filter append,
\* exclusion append, alignment padding, probe-location flatten) takes the
\* size of the listing above the capacity reserved from the measure pass:
\* the storage never moved, so the offsets recorded are in the storage that
\* is handed out.
C28_FlattenStaysWithinReservedCapacity ==
  \A t \in Threads :
    FlattenPassEntered(t) =>
      LET L == params[t].locals
      IN /\ ~L.relocated
         /\ L.capacity = L.storage_req
         /\ L.size <= L.capacity
         /\ \A i \in 1..Len(L.ptrs) :
              \A f \in {"ext", "filter_expression", "exclusions",
                        "probe_location"} :
                L.ptrs[i][f] # Null => L.ptrs[i][f] <= L.capacity

C28_Witness ==
  \E t \in Threads :
    /\ FlattenPassEntered(t)
    /\ params[t].events
    /\ ret[t] = 2
    /\ params[t].listing.recs =
         <<ExtendedHeader(12, 0, "valid"), ExtendedHeader(12, 2, "none")>>
    /\ params[t].locals.ptrs[1].probe_location
         = 2 * sizeof_lttng_event + sizeof_lttng_event_extended + 12 + 4
    /\ params[t].locals.size = params[t].locals.capacity
    /\ ~params[t].locals.relocated

\* Thread t's call handed a path to lttcomm_connect_unix_sock.
Opened(t) == resolving[t].used # NotYet

\* The caller of thread t's call is root or in the tracing group.
Privileged(t) ==
  resolving[t].caller.uid = 0 \/ resolving[t].caller.member

\* C23: the path a call connects to depends on privilege only: for root or a
\* member of the tracing group it is the global socket path; for any other
\* caller it is the path under the caller's home directory, and no
\* connection to the global socket was tried for that call.
C23_PathDependsOnPrivilegeOnly ==
  \A t \in Threads :
    Opened(t) =>
      IF Privileged(t)
      THEN resolving[t].used = PathOf(DEFAULT_GLOBAL_CLIENT_UNIX_SOCK)
      ELSE /\ resolving[t].used = PathOf(DEFAULT_HOME_CLIENT_UNIX_SOCK)
           /\ resolving[t].tried = NotYet

\* C24: with several threads calling at once, the path a call hands to
\* lttcomm_connect_unix_sock is the path its own resolution ended with: not
\* a path another thread left there, whole or half written.
C24_ConnectsToOwnResolvedPath ==
  \A t \in Threads :
    Opened(t) => resolving[t].used = resolving[t].resolved

\* The payload transport, called directly by thread t, returned success.
PayloadSucceeded(t) ==
  /\ api[t] = "lttng_ctl_ask_sessiond_payload"
  /\ pc[t] = "returned"
  /\ ret[t] >= 0

\* C25: after a successful lttng_ctl_ask_sessiond_payload the reply header
\* and every section it declares were received, in that order and in full;
\* the reply buffer holds the command-header bytes then the data bytes, the
\* header stripped (its size is what was received less sizeof(llm), and is
\* the value returned); the descriptors received are attached.  When the
\* header is stripped the buffer holds at least sizeof(llm) bytes: the
\* subtraction does not wrap and abort() is not reached.
C25_ReplyIsSectionsWithoutHeader ==
  \A t \in Threads :
    /\ PayloadSucceeded(t) =>
         /\ HasEv(t, "recv_hdr", "full")
         /\ llm[t].cmd_header_size # Zero <=> HasEv(t, "recv_cmd", "full")
         /\ llm[t].data_size # Zero <=> HasEv(t, "recv_data", "full")
         /\ \A e \in RecvEvents : ~HasEv(t, e, "eof")
         /\ reply[t].size = SzAdd(llm[t].cmd_header_size, llm[t].data_size)
         /\ U32(ret[t]) = reply[t].size
         /\ reply[t].fds = Val(llm[t].fd_count)
    /\ pc[t] = "strip" => ~SzLess(reply[t].size, U32(SizeofLlm))

\* The stripping itself never wraps, whatever was received.
C25_StripNeverWraps ==
  \A t \in Threads :
    pc[t] = "strip" => ~SzLess(reply[t].size, U32(SizeofLlm))

\* lttng_destroy_session of thread t has returned.
DestroyReturned(t) ==
  api[t] = "lttng_destroy_session" /\ pc[t] = "returned"

\* The steps a successful destruction goes through, in order.
DestroyedInOrder == <<"stopped", "accepted", "completed", "success">>

\* C26: lttng_destroy_session returns 0 or a negative value, never a
\* positive one.  It returns 0 only when the stop-and-wait phase ended with
\* 0 or `trace already stopped', then the destruction request was accepted,
\* then the wait on the handle reported completion, then the final result
\* code was LTTNG_OK.  On every exit path
\* lttng_destruction_handle_destroy was called once and no handle is left.
C26_DestroyReturnsZeroOnlyAfterAllSteps ==
  \A t \in Threads :
    DestroyReturned(t) =>
      /\ ret[t] <= 0
      /\ ret[t] = 0 =>
           /\ params[t].trail = DestroyedInOrder
           /\ params[t].stop_result
                \in {0, 0 - LTTNG_ERR_TRACE_ALREADY_STOPPED}
      /\ params[t].destroyed = 1
      /\ params[t].handle # "created"

\* The same with the sign of the result left out.
C26_OrderAndHandle ==
  \A t \in Threads :
    DestroyReturned(t) =>
      /\ ret[t] = 0 =>
           /\ params[t].trail = DestroyedInOrder
           /\ params[t].stop_result
                \in {0, 0 - LTTNG_ERR_TRACE_ALREADY_STOPPED}
      /\ params[t].destroyed = 1
      /\ params[t].handle # "created"

\* The writes of a call that are not the credential-bearing one.
PlainWrites == {"send_varlen", "send_fds"}

\* C27: in every exchange the first write on the connection just opened is
\* the credential-bearing one (the command record on the fixed-header path,
\* the whole message buffer on the payload path), and variable data or
\* descriptors are written on that connection only after it succeeded.
C27_CredentialsWrittenFirst ==
  \A t \in Threads :
    \A i \in DOMAIN log[t] :
      /\ (log[t][i].ev \in SendEvents
          /\ \A j \in 1..(i - 1) : log[t][j].ev \notin SendEvents) =>
           /\ log[t][i].ev = "send_msg"
           /\ i > 1
           /\ log[t][i - 1] = Ev("connect", log[t][i].sock, "ok")
      /\ log[t][i].ev \in PlainWrites =>
           \E j \in 1..(i - 1) :
             log[t][j] = Ev("send_msg", log[t][i].sock, "ok")

\* Both paths have written their credentials and then more on the same
\* connection.
C27_Witness ==
  \E t \in Threads :
    /\ OnPayloadPath(t)
    /\ \E i, j \in DOMAIN log[t] :
         /\ i < j
         /\ log[t][i] = Ev("send_msg", mysock[t], "ok")
         /\ log[t][j] = Ev("send_fds", mysock[t], "ok")

C27_WitnessFixedHeader ==
  \E t \in Threads :
    /\ OnFdsPath(t)
    /\ \E i, j \in DOMAIN log[t] :
         /\ i < j
         /\ log[t][i] = Ev("send_msg", mysock[t], "ok")
         /\ log[t][j] = Ev("send_varlen", mysock[t], "ok")

\* The negative values a transport call may return: the negation of the
\* library's own codes, or of the code the daemon's header carries.
OwnErrors ==
  {0 - LTTNG_ERR_NO_SESSIOND, 0 - LTTNG_ERR_FATAL, 0 - LTTNG_ERR_NOMEM,
   0 - LTTNG_ERR_INVALID}

\* C29: every negative value a transport call returns is -LTTNG_ERR_NO_SESSIOND,
\* -LTTNG_ERR_FATAL, -LTTNG_ERR_NOMEM, -LTTNG_ERR_INVALID or the negation of
\* the code in the reply header; neither a raw errno nor the raw result of
\* a socket primitive is returned, in particular when the allocation of a
\* reply block or the receive of the reply's descriptors fails.
C29_NegativeReturnsAreLttngCodes ==
  \A t \in Threads :
    (AskReturned(t) /\ ret[t] < 0) =>
      \/ ret[t] \in OwnErrors
      \/ /\ llm[t].set
         /\ HeaderGate(llm[t])
         /\ ret[t] = DaemonError(llm[t])

\* The bytes of the sections a successful reply of thread t's call carried.
BytesReceived(t) ==
  IF OnPayloadPath(t)
  THEN SzAdd(llm[t].cmd_header_size, llm[t].data_size)
  ELSE llm[t].data_size

\* C30: whatever 32-bit data_size and cmd_header_size the header of a reply
\* declares, a transport call that received the whole reply returns a
\* non-negative int equal to the number of bytes received; sizes above
\* INT_MAX do not turn a complete exchange into a negative return.
C30_CompleteExchangeReturnsItsSize ==
  \A t \in Threads :
    (AskReturned(t) /\ api[t] \in TransportApis /\ Succeeded(t)) =>
      /\ ret[t] >= 0
      /\ U32(ret[t]) = BytesReceived(t)

\* lttng_data_pending of thread t has returned.
DataPendingReturned(t) ==
  pc[t] = "returned" /\ api[t] = "lttng_data_pending"

\* The daemon's reply arrived whole and reported LTTNG_OK.
ExchangeSucceeded(t) ==
  /\ HasEv(t, "recv_hdr", "full")
  /\ llm[t].ret_code = U32(LTTNG_OK)
  /\ (llm[t].cmd_header_size = Zero \/ HasEv(t, "recv_cmd", "full"))
  /\ (llm[t].data_size = Zero \/ HasEv(t, "recv_data", "full"))

\* A non-negative result is the byte of a one-byte reply that arrived.
C31_PendingByteOnlyFromOneByteReply ==
  \A t \in Threads :
    DataPendingReturned(t) /\ ret[t] >= 0 =>
        /\ ExchangeSucceeded(t)
        /\ llm[t].data_size = U32(1)
        /\ ret[t] \in PendingBytes

\* A reply of any other size is refused with -LTTNG_ERR_INVALID.
C31_OtherSizesAreInvalid ==
  \A t \in Threads :
    /\ DataPendingReturned(t)
    /\ params[t].session_name
    /\ ExchangeSucceeded(t)
    /\ llm[t].data_size # U32(1)
    => ret[t] = 0 - LTTNG_ERR_INVALID

\* An error of the transport call is the result, and what the transport
\* handed over has been passed to free().
C31_ErrorsUnchangedAndBufferReleased ==
  \A t \in Threads :
    DataPendingReturned(t) /\ params[t].session_name =>
      /\ (params[t].asked < 0 => ret[t] = params[t].asked)
      /\ (out[t].payload_buf = "alloc" => out[t].freed)

\* C31: lttng_data_pending returns the daemon's pending byte only when the
\* exchange succeeded with a data section of exactly one byte; a successful
\* exchange with any other data size (0 included) returns
\* -LTTNG_ERR_INVALID; an error of the transport or the daemon is returned
\* unchanged; and the received buffer is released on every path.
C31_DataPending ==
  /\ C31_PendingByteOnlyFromOneByteReply
  /\ C31_OtherSizesAreInvalid
  /\ C31_ErrorsUnchangedAndBufferReleased

\* lttng_list_sessions or lttng_list_channels of thread t, called with
\* usable arguments, has returned.
RecordsApis == {"lttng_list_sessions", "lttng_list_channels"}
RecordsReturned(t) ==
  /\ pc[t] = "returned"
  /\ api[t] \in RecordsApis
  /\ ~InvalidArguments(t)

\* The caller's output pointer after the call.
RecordsOutput(t) ==
  IF api[t] = "lttng_list_sessions" THEN out[t].user
  ELSE out[t].payload_buf

\* Record i of k has its extended pointer on the i-th extended block after
\* the k fixed records, inside an allocation of n bytes.
ExtendedLayout(t, k, n) ==
  /\ Len(out[t].extended) = k
  /\ \A i \in 1..k :
       /\ out[t].extended[i]
            = k * (RecordSize - 1) + (i - 1) * 1
       /\ out[t].extended[i] + 1 <= n
  /\ k > 0 => RecordsOutput(t) = "alloc" /\ ~out[t].freed

\* A count is returned only for a reply that arrived whole.
C32_CountOnlyForAReplyThatArrived ==
  \A t \in Threads :
    RecordsReturned(t) /\ ret[t] >= 0 =>
      /\ ExchangeSucceeded(t)
      /\ U32Mod(llm[t].data_size, RecordSize) = 0
      /\ ret[t] = U32Div(llm[t].data_size, RecordSize)

\* A reply of k whole records yields k.
C32_WholeRecordsAreCounted ==
  \A t \in Threads :
    /\ RecordsReturned(t)
    /\ ExchangeSucceeded(t)
    /\ U32Mod(llm[t].data_size, RecordSize) = 0
    => ret[t] = U32Div(llm[t].data_size, RecordSize)

\* The k records returned are laid out as described.
C32_ExtendedLayout ==
  \A t \in Threads :
    RecordsReturned(t) /\ ret[t] >= 0 =>
      ExtendedLayout(t, ret[t], ret[t] * RecordSize)

\* A reply that is not a whole number of records is refused and released.
C32_PartialRecordRefused ==
  \A t \in Threads :
    /\ RecordsReturned(t)
    /\ ExchangeSucceeded(t)
    /\ U32Mod(llm[t].data_size, RecordSize) # 0
    /\ FitsInt(llm[t].data_size)
    => /\ ret[t] = 0 - LTTNG_ERR_UNK
       /\ out[t].freed
       /\ RecordsOutput(t) = "null"

\* C32: for lttng_list_sessions and lttng_list_channels, when the received
\* data size is k records (each a fixed record and an extended record) the
\* call returns k and record i's extended pointer addresses the i-th
\* extended block, located after the k fixed records inside the received
\* allocation; when the size is not a whole number of records the call
\* returns -LTTNG_ERR_UNK, the buffer was freed once and the caller's output
\* pointer is NULL.
C32_RecordsAndTheirExtendedBlocks ==
  /\ C32_CountOnlyForAReplyThatArrived
  /\ C32_WholeRecordsAreCounted
  /\ C32_ExtendedLayout
  /\ C32_PartialRecordRefused

\* C33: whenever lttng_list_sessions returns a non-negative count,
\* *out_sessions has been assigned by the call; when the daemon reports no
\* session (return value 0) the output pointer is set, to NULL, rather than
\* left holding what the caller had in it.
C33_OutputAssignedWithEveryCount ==
  \A t \in Threads :
    /\ pc[t] = "returned"
    /\ api[t] = "lttng_list_sessions"
    /\ params[t].out_sessions
    /\ ret[t] >= 0
    => /\ out[t].user # "unset"
       /\ ret[t] = 0 => out[t].user = "null"

\* The same of lttng_list_channels, whose reply buffer is *channels itself.
C33_ChannelsOutputAssigned ==
  \A t \in Threads :
    /\ pc[t] = "returned"
    /\ api[t] = "lttng_list_channels"
    /\ ~InvalidArguments(t)
    /\ ret[t] >= 0
    => /\ out[t].payload_buf # "unset"
       /\ ret[t] = 0 => out[t].payload_buf = "null"

\* _lttng_stop_tracing(session_name, 1) of thread t has returned, to the
\* caller of lttng_stop_tracing or into lttng_destroy_session.
StopAndWaitOver(t) ==
  /\ \/ api[t] = "lttng_stop_tracing" /\ pc[t] = "returned"
     \/ api[t] = "lttng_destroy_session" /\ pc[t] = "stopped"
  /\ params[t].session_name

\* The stop command of thread t's call was answered `trace already stopped'.
AlreadyStopped(t) ==
  params[t].stop_ret = 0 - LTTNG_ERR_TRACE_ALREADY_STOPPED

\* C34: when the stop command is answered `trace already stopped',
\* lttng_stop_tracing (with wait) still runs the data-pending poll loop to
\* its end, and then returns the negative `trace already stopped' code, not
\* 0, unless a data-pending check failed, in which case that check's error
\* is returned; lttng_destroy_session takes that code as non-fatal and goes
\* on to the destruction request.
C34_AlreadyStoppedStillPollsAndIsNotFatal ==
  \A t \in Threads :
    /\ StopAndWaitOver(t) /\ AlreadyStopped(t) =>
         /\ params[t].checks >= 1
         /\ params[t].sleeps = params[t].pendings
         /\ params[t].sleeps = params[t].checks - 1
         /\ \/ /\ params[t].last = 0
               /\ ret[t] = 0 - LTTNG_ERR_TRACE_ALREADY_STOPPED
            \/ /\ params[t].last < 0
               /\ ret[t] = params[t].last
    /\ /\ DestroyReturned(t)
       /\ params[t].stop_result = 0 - LTTNG_ERR_TRACE_ALREADY_STOPPED
       => /\ Len(params[t].trail) >= 2
          /\ params[t].trail[1] = "stopped"
          /\ params[t].trail[2] \in {"accepted", "refused"}

\* A destruction that went through after the daemon answered `already
\* stopped' and data was pending once.
C34_Witness ==
  \E t \in Threads :
    /\ DestroyReturned(t)
    /\ AlreadyStopped(t)
    /\ params[t].pendings >= 1
    /\ params[t].last = 0
    /\ params[t].stop_result = 0 - LTTNG_ERR_TRACE_ALREADY_STOPPED
    /\ params[t].trail = DestroyedInOrder
    /\ ret[t] = 0

\* lttng_stop_tracing returned `already stopped' after polling.
C34_WitnessStopTracing ==
  \E t \in Threads :
    /\ api[t] = "lttng_stop_tracing"
    /\ StopAndWaitOver(t)
    /\ AlreadyStopped(t)
    /\ params[t].pendings >= 1
    /\ ret[t] = 0 - LTTNG_ERR_TRACE_ALREADY_STOPPED

\* lttng_destroy_session_no_wait of thread t has returned.
NoWaitReturned(t) ==
  api[t] = "lttng_destroy_session_no_wait" /\ pc[t] = "returned"

\* The call did nothing but ask for the destruction.
C35_OnlyTheDestructionRequest ==
  \A t \in Threads :
    NoWaitReturned(t) =>
      /\ log[t] = <<>>
      /\ params[t].exchanges = 0
      /\ params[t].checks = 0
      /\ params[t].handle = "null"
      /\ params[t].trail \in {<<"accepted">>, <<"refused">>}
      /\ params[t].trail = <<"refused">> => ret[t] < 0

\* C35: lttng_destroy_session_no_wait issues only the destruction request
\* (no stop command, no data-pending poll, no wait on a destruction handle)
\* and, like lttng_destroy_session, returns 0 when the daemon accepted the
\* request and a negative error code otherwise.
C35_NoWaitReturnsZeroWhenAccepted ==
  /\ C35_OnlyTheDestructionRequest
  /\ \A t \in Threads :
       NoWaitReturned(t) =>
         /\ params[t].trail = <<"accepted">> => ret[t] = 0
         /\ ret[t] <= 0

\* The listing buffer of a call that went through free_dynamic_buffer had
\* been initialized.
C36_ListingResetOnlyWhenInitialized ==
  \A t \in Threads :
    /\ api[t] = "lttng_list_events"
    /\ params[t].done
    /\ params[t].locals.label \notin {"end", "crash"}
    => params[t].locals.listing # "uninit"

\* C36: in lttng_list_events every payload released at exit (the received
\* payload and its copy) was initialized earlier in the same call, on every
\* path including the early return for a NULL handle or NULL channel name;
\* likewise the listing buffer is released only on paths where it was
\* initialized.
C36_ReleasedOnlyWhatWasInitialized ==
  /\ \A t \in Threads :
       api[t] = "lttng_list_events" /\ params[t].reset =>
         params[t].payloads = "init"
  /\ C36_ListingResetOnlyWhenInitialized

\* lttng_enable_event_with_exclusions of thread t has returned.
EnableReturned(t) ==
  api[t] = "lttng_enable_event_with_exclusions" /\ pc[t] = "returned"

\* A path that ends without asking the daemon has released the payload.
C37_PayloadReleasedWithoutAsking ==
  \A t \in Threads :
    EnableReturned(t) /\ log[t] = <<>> => params[t].payload = "released"

\* A path that ends without asking the daemon returns a negative value.
C37_NegativeWithoutAsking ==
  \A t \in Threads :
    EnableReturned(t) /\ log[t] = <<>> => ret[t] < 0

\* A non-negative value comes from a reply that arrived whole.
C37_NonNegativeOnlyFromTheDaemon ==
  \A t \in Threads :
    EnableReturned(t) /\ ret[t] >= 0 =>
      HasEv(t, "connect", "ok") /\ ExchangeSucceeded(t)

\* C37: lttng_enable_event_with_exclusions returns a non-negative value
\* only if a daemon exchange was performed and succeeded; every path that
\* ends without asking the daemon (invalid arguments, filter parse failure,
\* buffer reservation or append failure, failure to obtain the descriptor
\* count or the descriptor from the payload view) returns a negative error
\* code, and the call-scoped payload with any descriptor it holds is
\* released on those paths.
C37_NonNegativeOnlyAfterADaemonExchange ==
  /\ C37_NonNegativeOnlyFromTheDaemon
  /\ C37_NegativeWithoutAsking
  /\ C37_PayloadReleasedWithoutAsking

\* lttng_register_trigger or lttng_unregister_trigger of thread t has
\* returned.
TriggerApis == {"lttng_register_trigger", "lttng_unregister_trigger"}
TriggerReturned(t) == api[t] \in TriggerApis /\ pc[t] = "returned"

\* C38: lttng_register_trigger and lttng_unregister_trigger: when the
\* trigger already carries a user id that differs from the caller's
\* effective user id and the caller is not root, the call returns
\* -LTTNG_ERR_EPERM without opening a connection; when the trigger carries
\* no user id it is given the caller's effective user id before it is
\* serialized; on every exit path both the message payload and the reply
\* payload are released.
C38_TriggerCredentialsAndRelease ==
  \A t \in Threads :
    TriggerReturned(t) =>
      /\ (params[t].trigger /\ params[t].given = "other" /\ ~params[t].root)
           => /\ ret[t] = 0 - LTTNG_ERR_EPERM
              /\ log[t] = <<>>
              /\ params[t].serialized = "none"
      /\ (params[t].trigger /\ params[t].given = "unset")
           => /\ params[t].uid = "euid"
              /\ params[t].serialized \in {"none", "euid"}
      /\ log[t] # <<>> => params[t].serialized = params[t].uid
      /\ params[t].released = {"message", "reply"}

\* Another user's trigger was refused to a caller who is not root.
C38_Witness ==
  \E t \in Threads :
    /\ TriggerReturned(t)
    /\ api[t] = "lttng_unregister_trigger"
    /\ params[t].given = "other" /\ ~params[t].root
    /\ ret[t] = 0 - LTTNG_ERR_EPERM
    /\ params[t].released = {"message", "reply"}

\* A trigger without credentials was registered as the caller's.
C38_WitnessGivenCredentials ==
  \E t \in Threads :
    /\ TriggerReturned(t)
    /\ api[t] = "lttng_register_trigger"
    /\ params[t].given = "unset"
    /\ params[t].serialized = "euid"
    /\ HasEv(t, "recv_hdr", "full")
    /\ ret[t] = 0

====
